---------------------------- MODULE Spec2Model ----------------------------
(***************************************************************************)
(* Cangkulan Lite: the game contract (contracts/cangkulan/src/lib.rs) as a *)
(* state machine.  One session of the contract is modelled: its stored     *)
(* CangkulanGame record, the ledger sequence, the game hub's call log, the *)
(* players' persistent histories and the pre-verified Noir flags.  Every   *)
(* public entry point is one action; a call that returns Err leaves the    *)
(* storage as it was (the host rolls the transaction back).                *)
(*                                                                         *)
(* Cryptography is idealised: keccak256 and the Pedersen commitment are    *)
(* injective constructors, and a proof is accepted exactly when it was     *)
(* built from a witness of the statement it is checked against.            *)
(***************************************************************************)
EXTENDS Integers, Sequences, FiniteSets, TLC

(***************************************************************************)
(* Program constants                                                       *)
(***************************************************************************)
DECK_SIZE == 36
CARDS_PER_SUIT == 9
HAND_SIZE == 5
TIMEOUT_ACTIONS == 2
LEDGER_RATE_SECS == 5
TIMEOUT_MINUTES == 10
TIMEOUT_LEDGERS == (TIMEOUT_MINUTES * 60) \div LEDGER_RATE_SECS
MIN_TICK_GAP_LEDGERS == TIMEOUT_LEDGERS \div TIMEOUT_ACTIONS
MAX_HISTORY_PER_PLAYER == 50
\* u32::MAX stands at 2^31 - 1, the largest integer TLC represents; the model
\* keeps every other quantity far below it.
U32_MAX == 2147483647
CANNOT_FOLLOW_SENTINEL == U32_MAX

STATE_SEED_COMMIT == 1
STATE_SEED_REVEAL == 2
STATE_PLAYING == 3
STATE_FINISHED == 4

TRICK_NONE == 0
TRICK_COMMIT_WAIT_BOTH == 10
TRICK_COMMIT_WAIT_P1 == 11
TRICK_COMMIT_WAIT_P2 == 12
TRICK_REVEAL_WAIT_BOTH == 20
TRICK_REVEAL_WAIT_P1 == 21
TRICK_REVEAL_WAIT_P2 == 22

OUTCOME_UNRESOLVED == 0
OUTCOME_PLAYER1_WIN == 1
OUTCOME_PLAYER2_WIN == 2
OUTCOME_DRAW == 3

PLAYER_1 == 1
PLAYER_2 == 2

(***************************************************************************)
(* Bounds of the model and the inputs the environment draws from           *)
(***************************************************************************)
\* The ledger sequence the test environment starts at.
InitialLedger == 100
\* The ledger advances by at most this much over a run.
MaxLedgerAdvance == 120
\* No play commit is submitted once action_nonce has reached this value.
MaxNonce == 8
\* The session id of the game (the first one the tests use).
SessionId == 1

\* Addresses: the two players and somebody else.
Alice == 101
Bob == 102
Carol == 103
Addresses == {Alice, Bob, Carol}

\* The ledger advances one tick gap at a time.
LedgerSteps == {MIN_TICK_GAP_LEDGERS}

\* Salts and blindings a player draws (the tests' 0x11 and 0xFF).
GoodSalt == 17
OtherSalt == 255
Salts == {GoodSalt, OtherSalt}

(***************************************************************************)
(* Option<T> as a sequence of length at most one                           *)
(***************************************************************************)
None == << >>
Some(x) == << x >>
IsSome(o) == o # << >>
IsNone(o) == o = << >>
Unwrap(o) == o[1]

SatAdd(a, b) == IF a > U32_MAX - b THEN U32_MAX ELSE a + b

(***************************************************************************)
(* Hash values.  A 32-byte digest is the record of what was hashed.        *)
(***************************************************************************)
Digest(kind, x, y, z) == [kind |-> kind, x |-> x, y |-> y, z |-> z]

\* keccak256(seed_hash || blinding || player): the NIZK seed commitment.
NizkCommitment(seed_hash, blinding, player) == Digest("nizk", seed_hash, blinding, player)
\* keccak256(seed_hash): the Noir-mode seed commitment.
KeccakSeedHash(seed_hash) == Digest("k32", seed_hash, 0, 0)
\* keccak256(card_id_be4 || salt): the legacy play commitment.
KeccakPlay(card_id, salt) == Digest("play", card_id, salt, 0)
\* card_id*G + blinding*H, as the pair of its scalars.
pedersen_commit(card_id, blinding) == << card_id, blinding >>
\* keccak256 of a G1 point's 96 bytes.
KeccakPoint(pt) == Digest("g1", pt[1], pt[2], 0)
\* First byte of keccak256(commit1 || commit2), as far as its parity goes.
KeccakPairFirstByte(c1, c2) ==
    (c1.x * 3 + c1.y + c1.z + c2.x * 5 + c2.y + c2.z + 1) % 256

\* Number of distinct byte values of a seed hash: hash 0 is thirty-two zero bytes.
DistinctBytes(seed_hash) == IF seed_hash = 0 THEN 1 ELSE 32

(***************************************************************************)
(* Cards                                                                   *)
(***************************************************************************)
Suit(card) == card \div CARDS_PER_SUIT
Value(card) == card % CARDS_PER_SUIT

SeqToSet(s) == { s[i] : i \in 1..Len(s) }
RemoveAt(s, i) == SubSeq(s, 1, i - 1) \o SubSeq(s, i + 1, Len(s))

RECURSIVE SumSeq(_)
SumSeq(s) == IF s = << >> THEN 0 ELSE s[1] + SumSeq(Tail(s))

\* A suit test that never finds the suit.
has_suit_in_hand_never(hand, suit) == FALSE

has_suit_in_hand(hand, suit) == \E i \in 1..Len(hand) : Suit(hand[i]) = suit

\* Position (1-based) of the first occurrence of card_id, 0 when absent.
\* A search that reports the head of the hand whatever card is asked for.
find_card_position_head(hand, card_id) == IF hand = << >> THEN 0 ELSE 1

find_card_position(hand, card_id) ==
    IF \E i \in 1..Len(hand) : hand[i] = card_id
    THEN CHOOSE i \in 1..Len(hand) :
             hand[i] = card_id /\ \A k \in 1..(i - 1) : hand[k] # card_id
    ELSE 0

RECURSIVE hand_total_value(_)
hand_total_value(hand) ==
    IF hand = << >> THEN 0
    ELSE Value(hand[1]) + 2 + hand_total_value(Tail(hand))

\* The cards of a hand that match the suit, in hand order.
RECURSIVE ValidSet(_, _)
ValidSet(hand, suit) ==
    IF hand = << >> THEN << >>
    ELSE IF Suit(hand[1]) = suit
         THEN << hand[1] >> \o ValidSet(Tail(hand), suit)
         ELSE ValidSet(Tail(hand), suit)

(***************************************************************************)
(* Shuffle: Fisher-Yates over [0..36) driven by the seeded PRNG            *)
(***************************************************************************)
\* keccak256(sh1 || sh2 || session_id), the PRNG seed.
PrngSeed(sh1, sh2, session_id) == sh1 * 4540 + sh2 * 8853 + session_id * 308

\* The draw of gen_range(0..=idx) made at step idx of the shuffle.
GenRange(seed, idx) == ((seed + idx) * (seed + idx) + 7 * idx + seed) % (idx + 1)

Swap(deck, a, b) == [deck EXCEPT ![a] = deck[b], ![b] = deck[a]]

RECURSIVE FisherYates(_, _, _)
FisherYates(deck, idx, seed) ==
    IF idx < 1 THEN deck
    ELSE FisherYates(Swap(deck, idx + 1, GenRange(seed, idx) + 1), idx - 1, seed)

ShuffledDeck(sh1, sh2, session_id) ==
    FisherYates([i \in 1..DECK_SIZE |-> i - 1], DECK_SIZE - 1,
                PrngSeed(sh1, sh2, session_id))


(***************************************************************************)
(* State                                                                   *)
(***************************************************************************)
VARIABLES
    stored,      \* temporary storage holds StorageKey::Game(SessionId)
    game,        \* the CangkulanGame record stored under it
    ledger,      \* env.ledger().sequence()
    hub_start,   \* number of start_game calls the hub received
    hub_end,     \* the player1_won flags of the end_game calls the hub received
    history,     \* persistent PlayerHistory(address): sequence of GameSummary
    noir_flag,   \* temporary NoirSeedVerified(SessionId, slot): Option<seed_hash>
    removed,     \* ghost: the cards resolved tricks took out of play, in order
    resolved,    \* ghost: the number of tricks resolve_trick has resolved
    last,        \* ghost: the last call that returned Ok
    zk_call      \* a call of the verifier contract: its arguments and what it did

vars == << stored, game, ledger, hub_start, hub_end, history, noir_flag, removed,
          resolved, last, zk_call >>

\* No call of the verifier contract on its own is being looked at.
NoZkCall == [calls |-> 0]

\* The record start_game stores.
NewGame(player1, player2) ==
    [ player1 |-> player1, player2 |-> player2,
      seed_commit1 |-> None, seed_commit2 |-> None,
      seed_hash1 |-> None, seed_hash2 |-> None,
      seed_revealed1 |-> FALSE, seed_revealed2 |-> FALSE,
      hand1 |-> << >>, hand2 |-> << >>, draw_pile |-> << >>,
      trick_state |-> TRICK_NONE, trick_suit |-> None,
      trick_card1 |-> None, trick_card2 |-> None, flipped_card |-> None,
      play_commit1 |-> None, play_commit2 |-> None,
      zk_play1 |-> FALSE, zk_play2 |-> FALSE,
      tricks_won1 |-> 0, tricks_won2 |-> 0,
      lifecycle_state |-> STATE_SEED_COMMIT, outcome |-> OUTCOME_UNRESOLVED,
      action_nonce |-> 0, deadline_nonce |-> None, deadline_ledger |-> None,
      last_tick_ledger |-> 0 ]

(***************************************************************************)
(* What a call returns: its result code, the game record it would write,   *)
(* and the other storage and hub effects it makes when it returns Ok.      *)
(***************************************************************************)
Result(res, g, ends, hist, flags, cleared) ==
    [ res |-> res, g |-> g, hub_end |-> ends, history |-> hist,
      noir_flag |-> flags, cleared |-> cleared, started |-> FALSE ]

Ok(g) == Result("Ok", g, hub_end, history, noir_flag, << >>)
\* An error that leaves the deadline of the session disarmed.
Err_disarming(code) ==
    Result(code, [game EXCEPT !.deadline_nonce = None, !.deadline_ledger = None],
           hub_end, history, noir_flag, << >>)

Err(code) == Result(code, game, hub_end, history, noir_flag, << >>)

(***************************************************************************)
(* Internal helpers of the contract                                        *)
(***************************************************************************)
\* A bump that is forgotten.
bump_nonce_forgotten(g) == g

\* A bump that counts the call twice.
bump_nonce_twice(g) == [g EXCEPT !.action_nonce = SatAdd(g.action_nonce, 2)]

bump_nonce(g) == [g EXCEPT !.action_nonce = SatAdd(g.action_nonce, 1)]

\* A deadline that leaves the opponent a single action.
ArmDeadline_one_action(g) ==
    [g EXCEPT !.deadline_nonce = Some(SatAdd(g.action_nonce, 1)),
              !.deadline_ledger = Some(SatAdd(ledger, TIMEOUT_LEDGERS))]


\* The deadline pair armed from the current nonce and ledger.
ArmDeadline(g) ==
    [g EXCEPT !.deadline_nonce = Some(SatAdd(g.action_nonce, TIMEOUT_ACTIONS)),
              !.deadline_ledger = Some(SatAdd(ledger, TIMEOUT_LEDGERS))]

\* A lookup that seats everybody but player 1 as player 2.
resolve_slot_seats_anyone(g, player) ==
    IF player = g.player1 THEN PLAYER_1 ELSE PLAYER_2


\* 1 or 2 for a player of the game, 0 for anybody else (NotAPlayer).
resolve_slot(g, player) ==
    IF player = g.player1 THEN PLAYER_1
    ELSE IF player = g.player2 THEN PLAYER_2
    ELSE 0

\* A guard that lets a finished session through.
require_active_always(g) == TRUE

require_active(g) == g.lifecycle_state # STATE_FINISHED

require_commit_phase(g, slot) ==
    CASE g.trick_state = TRICK_COMMIT_WAIT_BOTH -> TRUE
      [] g.trick_state = TRICK_COMMIT_WAIT_P1 -> slot = PLAYER_1
      [] g.trick_state = TRICK_COMMIT_WAIT_P2 -> slot = PLAYER_2
      [] OTHER -> FALSE

\* A reveal gate that only looks at the session being in a trick.
require_reveal_phase_any(g, slot) == g.trick_state # TRICK_NONE

require_reveal_phase(g, slot) ==
    CASE g.trick_state = TRICK_REVEAL_WAIT_BOTH -> TRUE
      [] g.trick_state = TRICK_REVEAL_WAIT_P1 -> slot = PLAYER_1
      [] g.trick_state = TRICK_REVEAL_WAIT_P2 -> slot = PLAYER_2
      [] OTHER -> FALSE

check_seed_entropy(seed_hash) == DistinctBytes(seed_hash) >= 4

get_hand(g, slot) == IF slot = PLAYER_1 THEN g.hand1 ELSE g.hand2

set_hand(g, slot, hand) ==
    IF slot = PLAYER_1 THEN [g EXCEPT !.hand1 = hand] ELSE [g EXCEPT !.hand2 = hand]

\* An advance that keeps waiting for the player who has just committed.
advance_commit_state_same_slot(g, slot) ==
    [g EXCEPT !.trick_state =
        IF g.trick_state = TRICK_COMMIT_WAIT_BOTH
        THEN (IF slot = PLAYER_1 THEN TRICK_COMMIT_WAIT_P1 ELSE TRICK_COMMIT_WAIT_P2)
        ELSE TRICK_REVEAL_WAIT_BOTH]


advance_commit_state(g, slot) ==
    [g EXCEPT !.trick_state =
        IF g.trick_state = TRICK_COMMIT_WAIT_BOTH
        THEN (IF slot = PLAYER_1 THEN TRICK_COMMIT_WAIT_P2 ELSE TRICK_COMMIT_WAIT_P1)
        ELSE TRICK_REVEAL_WAIT_BOTH]

advance_reveal_state(g, slot) ==
    [g EXCEPT !.trick_state =
        IF g.trick_state = TRICK_REVEAL_WAIT_BOTH
        THEN (IF slot = PLAYER_1 THEN TRICK_REVEAL_WAIT_P2 ELSE TRICK_REVEAL_WAIT_P1)
        ELSE TRICK_NONE]

\* A flip that shows the head of the pile and leaves it there.
flip_next_card_keeping_pile(g) ==
    IF g.draw_pile = << >> THEN g
    ELSE [g EXCEPT !.flipped_card = Some(Head(g.draw_pile)),
                   !.trick_suit = Some(Suit(Head(g.draw_pile))),
                   !.trick_card1 = None, !.trick_card2 = None,
                   !.play_commit1 = None, !.play_commit2 = None,
                   !.zk_play1 = FALSE, !.zk_play2 = FALSE,
                   !.trick_state = TRICK_COMMIT_WAIT_BOTH]


\* A flip that takes the bottom card of the pile instead of its head.
flip_next_card_bottom(g) ==
    IF g.draw_pile = << >> THEN g
    ELSE [g EXCEPT !.draw_pile = SubSeq(g.draw_pile, 1, Len(g.draw_pile) - 1),
                   !.flipped_card = Some(g.draw_pile[Len(g.draw_pile)]),
                   !.trick_suit = Some(Suit(g.draw_pile[Len(g.draw_pile)])),
                   !.trick_card1 = None, !.trick_card2 = None,
                   !.play_commit1 = None, !.play_commit2 = None,
                   !.zk_play1 = FALSE, !.zk_play2 = FALSE,
                   !.trick_state = TRICK_COMMIT_WAIT_BOTH]

\* A flip that takes the rank of the card for the suit of the trick.
flip_next_card_suit_by_value(g) ==
    IF g.draw_pile = << >> THEN g
    ELSE [g EXCEPT !.draw_pile = Tail(g.draw_pile),
                   !.flipped_card = Some(Head(g.draw_pile)),
                   !.trick_suit = Some(Value(Head(g.draw_pile)) % 4),
                   !.trick_card1 = None, !.trick_card2 = None,
                   !.play_commit1 = None, !.play_commit2 = None,
                   !.zk_play1 = FALSE, !.zk_play2 = FALSE,
                   !.trick_state = TRICK_COMMIT_WAIT_BOTH]


flip_next_card(g) ==
    IF g.draw_pile = << >> THEN g
    ELSE [g EXCEPT !.draw_pile = Tail(g.draw_pile),
                   !.flipped_card = Some(Head(g.draw_pile)),
                   !.trick_suit = Some(Suit(Head(g.draw_pile))),
                   !.trick_card1 = None, !.trick_card2 = None,
                   !.play_commit1 = None, !.play_commit2 = None,
                   !.zk_play1 = FALSE, !.zk_play2 = FALSE,
                   !.trick_state = TRICK_COMMIT_WAIT_BOTH]

\* A penalty that copies the head of the pile instead of moving it.
give_penalty_card_copy(g, slot) ==
    IF g.draw_pile = << >> THEN g
    ELSE IF slot = PLAYER_1
         THEN [g EXCEPT !.hand1 = Append(g.hand1, Head(g.draw_pile))]
         ELSE [g EXCEPT !.hand2 = Append(g.hand2, Head(g.draw_pile))]

give_penalty_card(g, slot) ==
    IF g.draw_pile = << >> THEN g
    ELSE IF slot = PLAYER_1
         THEN [g EXCEPT !.draw_pile = Tail(g.draw_pile),
                        !.hand1 = Append(g.hand1, Head(g.draw_pile))]
         ELSE [g EXCEPT !.draw_pile = Tail(g.draw_pile),
                        !.hand2 = Append(g.hand2, Head(g.draw_pile))]

\* A deal that serves player 2 first.
shuffle_and_deal_second_first(g, session_id) ==
    LET deck == ShuffledDeck(Unwrap(g.seed_hash1), Unwrap(g.seed_hash2), session_id)
    IN [g EXCEPT !.hand2 = SubSeq(deck, 1, HAND_SIZE),
                 !.hand1 = SubSeq(deck, HAND_SIZE + 1, HAND_SIZE * 2),
                 !.draw_pile = SubSeq(deck, HAND_SIZE * 2 + 1, DECK_SIZE)]


shuffle_and_deal(g, session_id) ==
    LET deck == ShuffledDeck(Unwrap(g.seed_hash1), Unwrap(g.seed_hash2), session_id)
    IN [g EXCEPT !.hand1 = SubSeq(deck, 1, HAND_SIZE),
                 !.hand2 = SubSeq(deck, HAND_SIZE + 1, HAND_SIZE * 2),
                 !.draw_pile = SubSeq(deck, HAND_SIZE * 2 + 1, DECK_SIZE)]

\* A rule whose first tie-break prefers the larger hand.
determine_winner_more_cards(g) ==
    LET len1 == Len(g.hand1)
        len2 == Len(g.hand2)
        sum1 == hand_total_value(g.hand1)
        sum2 == hand_total_value(g.hand2)
    IN IF len1 = 0 /\ len2 > 0 THEN OUTCOME_PLAYER1_WIN
       ELSE IF len2 = 0 /\ len1 > 0 THEN OUTCOME_PLAYER2_WIN
       ELSE IF g.tricks_won1 > g.tricks_won2 THEN OUTCOME_PLAYER1_WIN
       ELSE IF g.tricks_won2 > g.tricks_won1 THEN OUTCOME_PLAYER2_WIN
       ELSE IF len1 > len2 THEN OUTCOME_PLAYER1_WIN
       ELSE IF len2 > len1 THEN OUTCOME_PLAYER2_WIN
       ELSE IF sum1 < sum2 THEN OUTCOME_PLAYER1_WIN
       ELSE IF sum2 < sum1 THEN OUTCOME_PLAYER2_WIN
       ELSE OUTCOME_DRAW

determine_winner(g) ==
    LET len1 == Len(g.hand1)
        len2 == Len(g.hand2)
        sum1 == hand_total_value(g.hand1)
        sum2 == hand_total_value(g.hand2)
    IN IF len1 = 0 /\ len2 > 0 THEN OUTCOME_PLAYER1_WIN
       ELSE IF len2 = 0 /\ len1 > 0 THEN OUTCOME_PLAYER2_WIN
       ELSE IF g.tricks_won1 > g.tricks_won2 THEN OUTCOME_PLAYER1_WIN
       ELSE IF g.tricks_won2 > g.tricks_won1 THEN OUTCOME_PLAYER2_WIN
       ELSE IF len1 < len2 THEN OUTCOME_PLAYER1_WIN
       ELSE IF len2 < len1 THEN OUTCOME_PLAYER2_WIN
       ELSE IF sum1 < sum2 THEN OUTCOME_PLAYER1_WIN
       ELSE IF sum2 < sum1 THEN OUTCOME_PLAYER2_WIN
       ELSE OUTCOME_DRAW

\* The rule with the awaited player of a trick taken for the winner.
determine_timeout_outcome_awaited(g) ==
    CASE g.lifecycle_state = STATE_SEED_COMMIT ->
            IF IsSome(g.seed_commit1) /\ IsNone(g.seed_commit2) THEN OUTCOME_PLAYER1_WIN
            ELSE IF IsNone(g.seed_commit1) /\ IsSome(g.seed_commit2) THEN OUTCOME_PLAYER2_WIN
            ELSE 0
      [] g.lifecycle_state = STATE_SEED_REVEAL ->
            IF g.seed_revealed1 /\ ~g.seed_revealed2 THEN OUTCOME_PLAYER1_WIN
            ELSE IF ~g.seed_revealed1 /\ g.seed_revealed2 THEN OUTCOME_PLAYER2_WIN
            ELSE IF ~g.seed_revealed1 /\ ~g.seed_revealed2 THEN OUTCOME_DRAW
            ELSE 0
      [] g.lifecycle_state = STATE_PLAYING ->
            IF g.trick_state \in {TRICK_COMMIT_WAIT_P1, TRICK_REVEAL_WAIT_P1}
            THEN OUTCOME_PLAYER1_WIN
            ELSE IF g.trick_state \in {TRICK_COMMIT_WAIT_P2, TRICK_REVEAL_WAIT_P2}
            THEN OUTCOME_PLAYER2_WIN
            ELSE IF g.trick_state \in {TRICK_COMMIT_WAIT_BOTH, TRICK_REVEAL_WAIT_BOTH}
            THEN determine_winner(g)
            ELSE 0
      [] OTHER -> 0

\* An outcome, or 0 for Err(TimeoutNotApplicable).
determine_timeout_outcome(g) ==
    CASE g.lifecycle_state = STATE_SEED_COMMIT ->
            IF IsSome(g.seed_commit1) /\ IsNone(g.seed_commit2) THEN OUTCOME_PLAYER1_WIN
            ELSE IF IsNone(g.seed_commit1) /\ IsSome(g.seed_commit2) THEN OUTCOME_PLAYER2_WIN
            ELSE 0
      [] g.lifecycle_state = STATE_SEED_REVEAL ->
            IF g.seed_revealed1 /\ ~g.seed_revealed2 THEN OUTCOME_PLAYER1_WIN
            ELSE IF ~g.seed_revealed1 /\ g.seed_revealed2 THEN OUTCOME_PLAYER2_WIN
            ELSE IF ~g.seed_revealed1 /\ ~g.seed_revealed2 THEN OUTCOME_DRAW
            ELSE 0
      [] g.lifecycle_state = STATE_PLAYING ->
            IF g.trick_state \in {TRICK_COMMIT_WAIT_P1, TRICK_REVEAL_WAIT_P1}
            THEN OUTCOME_PLAYER2_WIN
            ELSE IF g.trick_state \in {TRICK_COMMIT_WAIT_P2, TRICK_REVEAL_WAIT_P2}
            THEN OUTCOME_PLAYER1_WIN
            ELSE IF g.trick_state \in {TRICK_COMMIT_WAIT_BOTH, TRICK_REVEAL_WAIT_BOTH}
            THEN determine_winner(g)
            ELSE 0
      [] OTHER -> 0

flip_outcome(outcome) ==
    IF outcome = OUTCOME_PLAYER1_WIN THEN OUTCOME_PLAYER2_WIN
    ELSE IF outcome = OUTCOME_PLAYER2_WIN THEN OUTCOME_PLAYER1_WIN
    ELSE outcome

RECURSIVE DropOldest(_)
DropOldest(h) == IF Len(h) >= MAX_HISTORY_PER_PLAYER THEN DropOldest(Tail(h)) ELSE h

\* A history that, when full, gives up its newest entry instead of its oldest.
save_player_history_keeping_oldest(hist, session_id, player, opponent, outcome, tricks_won, tricks_lost) ==
    [hist EXCEPT ![player] =
        Append(IF Len(hist[player]) >= MAX_HISTORY_PER_PLAYER
               THEN SubSeq(hist[player], 1, MAX_HISTORY_PER_PLAYER - 1)
               ELSE hist[player],
               [ session_id |-> session_id, opponent |-> opponent, outcome |-> outcome,
                 tricks_won |-> tricks_won, tricks_lost |-> tricks_lost,
                 ledger |-> ledger ])]


save_player_history(hist, session_id, player, opponent, outcome, tricks_won, tricks_lost) ==
    [hist EXCEPT ![player] =
        Append(DropOldest(hist[player]),
               [ session_id |-> session_id, opponent |-> opponent, outcome |-> outcome,
                 tricks_won |-> tricks_won, tricks_lost |-> tricks_lost,
                 ledger |-> ledger ])]

\* A flag that on a draw is always taken from the parity of the session id.
Player1Won_by_session(g, session_id, outcome) ==
    IF outcome = OUTCOME_PLAYER1_WIN THEN TRUE
    ELSE IF outcome = OUTCOME_DRAW THEN session_id % 2 = 0
    ELSE FALSE

\* The flag finalize_game sends to the hub.
Player1Won(g, session_id, outcome) ==
    IF outcome = OUTCOME_PLAYER1_WIN THEN TRUE
    ELSE IF outcome = OUTCOME_DRAW
         THEN IF IsSome(g.seed_commit1) /\ IsSome(g.seed_commit2)
              THEN KeccakPairFirstByte(Unwrap(g.seed_commit1), Unwrap(g.seed_commit2)) % 2 = 0
              ELSE session_id % 2 = 0
         ELSE FALSE

finalize_game(g, session_id, outcome, cleared) ==
    IF g.lifecycle_state = STATE_FINISHED THEN Err("GameAlreadyEnded")
    ELSE LET g2 == [g EXCEPT !.outcome = outcome,
                             !.lifecycle_state = STATE_FINISHED,
                             !.deadline_nonce = None,
                             !.deadline_ledger = None]
             h1 == save_player_history(history, session_id, g.player1, g.player2,
                                       outcome, g.tricks_won1, g.tricks_won2)
             h2 == save_player_history(h1, session_id, g.player2, g.player1,
                                       flip_outcome(outcome), g.tricks_won2, g.tricks_won1)
         IN Result("Ok", g2, Append(hub_end, Player1Won(g, session_id, outcome)),
                   h2, noir_flag, cleared)

(***************************************************************************)
(* The ZK verifier contract (contracts/zk-verifier/src/lib.rs)             *)
(*                                                                         *)
(* A proof is the record of its length, the commitment point it carries,   *)
(* the witness (w, r) its transcript was computed from and the statement   *)
(* (set, suit, session, player) the Fiat-Shamir challenge was bound to.    *)
(***************************************************************************)
NoDigest == Digest("none", 0, 0, 0)
NoPoint == << 0, 0 >>

Proof(len, C, w, r, set, suit, sid, player, resp) ==
    [ len |-> len, C |-> C, w |-> w, r |-> r, set |-> set, suit |-> suit,
      sid |-> sid, player |-> player, resp |-> resp ]

PublicInputs(len, commit, seed_hash, nullifier, C, cards, suit, sid, player) ==
    [ len |-> len, commit |-> commit, seed_hash |-> seed_hash,
      nullifier |-> nullifier, C |-> C, cards |-> cards, suit |-> suit,
      sid |-> sid, player |-> player ]

\* Length of player.to_string().to_bytes(): a 56-character strkey.
AddressLen == 56

\* keccak256(seed_hash || "NULL" || session_id_be4)
Nullifier(seed_hash, sid) == Digest("null", seed_hash, sid, 0)
\* keccak256(commitment || session_id_be4 || player || "ZKV2")
FsChallenge(commitment, sid, player) == Digest("chal", commitment, sid, player)
\* keccak256(seed_hash || challenge || blinding)
NizkResponse(seed_hash, challenge, blinding) == Digest("resp", seed_hash, challenge, blinding)

verify_nizk_seed(pi, proof) ==
    /\ pi.len - 100 # 0
    /\ NizkCommitment(pi.seed_hash, proof.r, pi.player) = pi.commit
    /\ Nullifier(pi.seed_hash, pi.sid) = pi.nullifier
    /\ NizkResponse(pi.seed_hash, FsChallenge(pi.commit, pi.sid, pi.player), proof.r)
           = proof.resp
    /\ DistinctBytes(pi.seed_hash) >= 4

\* Schnorr proof of knowledge of r with C - Fr(seed_hash)*G = r*H.
verify_pedersen_sigma(pi, proof) ==
    /\ pi.len >= 96 + 32 + 4 + 1
    /\ pi.C = pedersen_commit(pi.seed_hash, proof.r)
    /\ proof.w = pi.seed_hash
    /\ proof.sid = pi.sid /\ proof.player = pi.player

\* A ring check that takes a ring of any size.
verify_card_play_ring_any_size(pi, proof) ==
    LET n == (proof.len - 96) \div 64
    IN /\ pi.len >= 32 + 4 + 4 * n + 4 + 1
       /\ Len(pi.cards) = n
       /\ pi.len - (40 + 4 * n) # 0
       /\ KeccakPoint(proof.C) = pi.commit
       /\ proof.C = pedersen_commit(proof.w, proof.r)
       /\ \E i \in 1..n : pi.cards[i] = proof.w
       /\ proof.set = pi.cards
       /\ proof.sid = pi.sid /\ proof.player = pi.player

verify_card_play_ring(pi, proof) ==
    LET n == (proof.len - 96) \div 64
    IN /\ ~(n = 0 \/ n > 9)
       /\ pi.len >= 32 + 4 + 4 * n + 4 + 1
       /\ Len(pi.cards) = n
       /\ pi.len - (40 + 4 * n) # 0
       /\ KeccakPoint(proof.C) = pi.commit
       /\ proof.C = pedersen_commit(proof.w, proof.r)
       /\ \E i \in 1..n : pi.cards[i] = proof.w
       /\ proof.set = pi.cards
       /\ proof.sid = pi.sid /\ proof.player = pi.player

verify_cangkul_hand(pi, proof) ==
    LET k == Len(proof.set)
    IN /\ ~(k = 0 \/ k > 18)
       /\ pi.len >= 32 + 4 + 4 + 4 * k + 4 + 1
       /\ ~(pi.suit > 3)
       /\ Len(pi.cards) = k
       /\ \A i \in 1..k : pi.cards[i] < 36 /\ pi.cards[i] \div 9 # pi.suit
       /\ pi.len - (44 + 4 * k) # 0
       /\ KeccakPoint(proof.C) = pi.commit
       /\ proof.C = pedersen_commit(SumSeq(pi.cards), proof.r)
       /\ proof.suit = pi.suit
       /\ proof.sid = pi.sid /\ proof.player = pi.player

\* The mode verify hands the proof to, 0 when it rejects without one.
verify_mode(pi, proof) ==
    IF proof.len = 0 THEN 0
    ELSE IF proof.len = 128 THEN 4
    ELSE IF proof.len = 228 THEN 8
    ELSE IF proof.len >= 160 /\ (proof.len - 96) % 64 = 0 THEN 7
    ELSE IF proof.len = 64 /\ pi.len >= 101 THEN 2
    ELSE 0

\* ZkCommitmentVerifier::verify: the mode is chosen by the proof length.
verify(pi, proof) ==
    CASE verify_mode(pi, proof) = 4 -> verify_pedersen_sigma(pi, proof)
      [] verify_mode(pi, proof) = 8 -> verify_cangkul_hand(pi, proof)
      [] verify_mode(pi, proof) = 7 -> verify_card_play_ring(pi, proof)
      [] verify_mode(pi, proof) = 2 -> verify_nizk_seed(pi, proof)
      [] OTHER -> FALSE

\* The UltraHonk verifier contract: verify_proof returns for a proof of the
\* seed whose hash bytes are the public inputs, and panics otherwise.
UltraHonkVerifyProof(seed_hash, proof) == proof.w = seed_hash

(***************************************************************************)
(* Proofs a client can build                                               *)
(***************************************************************************)
EmptyProof == Proof(0, NoPoint, 0, 0, << >>, 0, 0, 0, NoDigest)
ShortProof == Proof(10, NoPoint, 0, 0, << >>, 0, 0, 0, NoDigest)

NizkProof(seed_hash, blinding, sid, player) ==
    Proof(64, NoPoint, seed_hash, blinding, << >>, 0, sid, player,
          NizkResponse(seed_hash,
                       FsChallenge(NizkCommitment(seed_hash, blinding, player), sid, player),
                       blinding))

NoirProof(seed_hash) == Proof(14592, NoPoint, seed_hash, 0, << >>, 0, 0, 0, NoDigest)

RingProof(card, blinding, valid_set, sid, player) ==
    Proof(96 + 64 * Len(valid_set), pedersen_commit(card, blinding), card, blinding,
          valid_set, 0, sid, player, NoDigest)

CangkulProof(hand, blinding, suit, sid, player) ==
    Proof(228, pedersen_commit(SumSeq(hand), blinding), SumSeq(hand), blinding,
          hand, suit, sid, player, NoDigest)

(***************************************************************************)
(* Seed verification as the game contract routes it                        *)
(***************************************************************************)
\* A routing that accepts the pre-verified flag and leaves it in place.
call_seed_verifier_keeping_flag(session_id, slot, player, seed_hash, commit_hash, proof) ==
    IF proof.len = 0
    THEN IF IsSome(noir_flag[slot])
         THEN IF Unwrap(noir_flag[slot]) # seed_hash
              THEN [res |-> "CommitHashMismatch", flags |-> noir_flag]
              ELSE IF KeccakSeedHash(seed_hash) # commit_hash
              THEN [res |-> "CommitHashMismatch", flags |-> noir_flag]
              ELSE [res |-> "Ok", flags |-> noir_flag]
         ELSE [res |-> "InvalidZkProof", flags |-> noir_flag]
    ELSE [res |-> "InvalidZkProof", flags |-> noir_flag]


\* The result code, and the Noir flags left behind.
call_seed_verifier(session_id, slot, player, seed_hash, commit_hash, proof) ==
    IF proof.len = 0
    THEN IF IsSome(noir_flag[slot])
         THEN IF Unwrap(noir_flag[slot]) # seed_hash
              THEN [res |-> "CommitHashMismatch", flags |-> noir_flag]
              ELSE IF KeccakSeedHash(seed_hash) # commit_hash
              THEN [res |-> "CommitHashMismatch", flags |-> noir_flag]
              ELSE [res |-> "Ok", flags |-> [noir_flag EXCEPT ![slot] = None]]
         ELSE [res |-> "InvalidZkProof", flags |-> noir_flag]
    ELSE IF proof.len = 224
    THEN IF KeccakPoint(proof.C) # commit_hash
         THEN [res |-> "InvalidZkProof", flags |-> noir_flag]
         ELSE IF ~verify(PublicInputs(96 + 32 + 4 + AddressLen, commit_hash, seed_hash,
                                      NoDigest, proof.C, << >>, 0, session_id, player),
                         [proof EXCEPT !.len = 128])
         THEN [res |-> "InvalidZkProof", flags |-> noir_flag]
         ELSE [res |-> "Ok", flags |-> noir_flag]
    ELSE IF proof.len = 64
    THEN IF ~verify(PublicInputs(100 + AddressLen, commit_hash, seed_hash,
                                 Nullifier(seed_hash, session_id), NoPoint, << >>, 0,
                                 session_id, player),
                    proof)
         THEN [res |-> "InvalidZkProof", flags |-> noir_flag]
         ELSE [res |-> "Ok", flags |-> noir_flag]
    ELSE IF proof.len > 4000
    THEN IF KeccakSeedHash(seed_hash) # commit_hash
         THEN [res |-> "CommitHashMismatch", flags |-> noir_flag]
         ELSE IF ~UltraHonkVerifyProof(seed_hash, proof)
         THEN [res |-> "Panic", flags |-> noir_flag]
         ELSE [res |-> "Ok", flags |-> noir_flag]
    ELSE [res |-> "InvalidZkProof", flags |-> noir_flag]

(***************************************************************************)
(* Public entry points.  Each is the result of the call in the current     *)
(* state; the action that makes the call stores the result when it is Ok.  *)
(***************************************************************************)
\* read_game: the session's record is there.
GameFound(session_id) == stored /\ session_id = SessionId

\* A start that lets an address play against itself.
start_game_self_play(session_id, player1, player2) ==
    IF GameFound(session_id) THEN Err("SessionAlreadyExists")
    ELSE [Ok(NewGame(player1, player2)) EXCEPT !.started = TRUE]


\* A start that does not look for an existing session.
start_game_overwriting(session_id, player1, player2) ==
    IF player1 = player2 THEN Err("SelfPlayNotAllowed")
    ELSE [Ok(NewGame(player1, player2)) EXCEPT !.started = TRUE]

start_game(session_id, player1, player2) ==
    IF player1 = player2 THEN Err("SelfPlayNotAllowed")
    ELSE IF GameFound(session_id) THEN Err("SessionAlreadyExists")
    ELSE [Ok(NewGame(player1, player2)) EXCEPT !.started = TRUE]

\* A commit_seed that lets a player overwrite the commit already stored.
commit_seed_replacing(session_id, player, commit_hash) ==
    IF ~GameFound(session_id) THEN Err("GameNotFound")
    ELSE IF game.lifecycle_state # STATE_SEED_COMMIT THEN Err("WrongPhase")
    ELSE LET slot == resolve_slot(game, player)
         IN IF slot = 0 THEN Err("NotAPlayer")
            ELSE LET g1 == IF slot = PLAYER_1
                           THEN [game EXCEPT !.seed_commit1 = Some(commit_hash)]
                           ELSE [game EXCEPT !.seed_commit2 = Some(commit_hash)]
                     g2 == bump_nonce(g1)
                     g3 == IF IsNone(g2.deadline_nonce) THEN ArmDeadline(g2) ELSE g2
                     g4 == IF IsSome(g3.seed_commit1) /\ IsSome(g3.seed_commit2)
                           THEN ArmDeadline([g3 EXCEPT !.lifecycle_state = STATE_SEED_REVEAL])
                           ELSE g3
                 IN Ok(g4)


\* A commit_seed that opens the reveal phase at the first commit.
commit_seed_eager(session_id, player, commit_hash) ==
    IF ~GameFound(session_id) THEN Err("GameNotFound")
    ELSE IF game.lifecycle_state # STATE_SEED_COMMIT THEN Err("WrongPhase")
    ELSE LET slot == resolve_slot(game, player)
         IN IF slot = 0 THEN Err("NotAPlayer")
            ELSE IF slot = PLAYER_1 /\ IsSome(game.seed_commit1)
            THEN Err("CommitAlreadySubmitted")
            ELSE IF slot # PLAYER_1 /\ IsSome(game.seed_commit2)
            THEN Err("CommitAlreadySubmitted")
            ELSE LET g1 == IF slot = PLAYER_1
                           THEN [game EXCEPT !.seed_commit1 = Some(commit_hash)]
                           ELSE [game EXCEPT !.seed_commit2 = Some(commit_hash)]
                 IN Ok(ArmDeadline([bump_nonce(g1)
                                        EXCEPT !.lifecycle_state = STATE_SEED_REVEAL]))

commit_seed(session_id, player, commit_hash) ==
    IF ~GameFound(session_id) THEN Err("GameNotFound")
    ELSE IF game.lifecycle_state # STATE_SEED_COMMIT THEN Err("WrongPhase")
    ELSE LET slot == resolve_slot(game, player)
         IN IF slot = 0 THEN Err("NotAPlayer")
            ELSE IF slot = PLAYER_1 /\ IsSome(game.seed_commit1)
            THEN Err("CommitAlreadySubmitted")
            ELSE IF slot # PLAYER_1 /\ IsSome(game.seed_commit2)
            THEN Err("CommitAlreadySubmitted")
            ELSE LET g1 == IF slot = PLAYER_1
                           THEN [game EXCEPT !.seed_commit1 = Some(commit_hash)]
                           ELSE [game EXCEPT !.seed_commit2 = Some(commit_hash)]
                     g2 == bump_nonce(g1)
                     g3 == IF IsNone(g2.deadline_nonce) THEN ArmDeadline(g2) ELSE g2
                     g4 == IF IsSome(g3.seed_commit1) /\ IsSome(g3.seed_commit2)
                           THEN ArmDeadline([g3 EXCEPT !.lifecycle_state = STATE_SEED_REVEAL])
                           ELSE g3
                 IN Ok(g4)

reveal_seed(session_id, player, seed_hash, proof) ==
    IF ~GameFound(session_id) THEN Err("GameNotFound")
    ELSE IF game.lifecycle_state # STATE_SEED_REVEAL THEN Err("WrongPhase")
    ELSE LET slot == resolve_slot(game, player)
             revealed == IF slot = PLAYER_1 THEN game.seed_revealed1 ELSE game.seed_revealed2
             commit == IF slot = PLAYER_1 THEN game.seed_commit1 ELSE game.seed_commit2
         IN IF slot = 0 THEN Err("NotAPlayer")
            ELSE IF revealed THEN Err("RevealAlreadySubmitted")
            ELSE IF IsNone(commit) THEN Err("MissingCommit")
            ELSE IF ~check_seed_entropy(seed_hash) THEN Err("WeakSeedEntropy")
            ELSE LET v == call_seed_verifier(session_id, slot, player, seed_hash,
                                             Unwrap(commit), proof)
                     g1 == IF slot = PLAYER_1
                           THEN [game EXCEPT !.seed_revealed1 = TRUE,
                                             !.seed_hash1 = Some(seed_hash)]
                           ELSE [game EXCEPT !.seed_revealed2 = TRUE,
                                             !.seed_hash2 = Some(seed_hash)]
                     g2 == bump_nonce(g1)
                     g3 == IF g2.seed_revealed1 /\ g2.seed_revealed2
                           THEN ArmDeadline(flip_next_card(
                                    [shuffle_and_deal(g2, session_id)
                                        EXCEPT !.lifecycle_state = STATE_PLAYING]))
                           ELSE g2
                 IN IF v.res # "Ok" THEN Err(v.res)
                    ELSE Result("Ok", g3, hub_end, history, v.flags, << >>)

verify_noir_seed(session_id, player, seed_hash, proof) ==
    IF ~GameFound(session_id) THEN Err("GameNotFound")
    ELSE IF game.lifecycle_state # STATE_SEED_REVEAL THEN Err("WrongPhase")
    ELSE LET slot == resolve_slot(game, player)
             revealed == IF slot = PLAYER_1 THEN game.seed_revealed1 ELSE game.seed_revealed2
             commit == IF slot = PLAYER_1 THEN game.seed_commit1 ELSE game.seed_commit2
         IN IF slot = 0 THEN Err("NotAPlayer")
            ELSE IF revealed THEN Err("RevealAlreadySubmitted")
            ELSE IF ~check_seed_entropy(seed_hash) THEN Err("WeakSeedEntropy")
            ELSE IF IsNone(commit) THEN Err("MissingCommit")
            ELSE IF KeccakSeedHash(seed_hash) # Unwrap(commit) THEN Err("CommitHashMismatch")
            ELSE IF proof.len <= 4000 THEN Err("InvalidZkProof")
            ELSE IF ~UltraHonkVerifyProof(seed_hash, proof) THEN Err("Panic")
            ELSE Result("Ok", game, hub_end, history,
                        [noir_flag EXCEPT ![slot] = Some(seed_hash)], << >>)

\* The trick's winner takes it, the player who could not follow draws a
\* penalty card, the trick fields are cleared, and the game ends or the
\* next card is flipped.  `cleared' are the cards the trick took out of play.
\* A resolution that hands the penalty card to the player who won the trick.
resolve_trick_penalty_to_winner(session_id, g) ==
    LET p1_played == IsSome(g.trick_card1)
        p2_played == IsSome(g.trick_card2)
        g1 == IF p1_played /\ p2_played
              THEN IF Value(Unwrap(g.trick_card1)) >= Value(Unwrap(g.trick_card2))
                   THEN [g EXCEPT !.tricks_won1 = g.tricks_won1 + 1]
                   ELSE [g EXCEPT !.tricks_won2 = g.tricks_won2 + 1]
              ELSE IF p1_played
              THEN give_penalty_card([g EXCEPT !.tricks_won1 = g.tricks_won1 + 1], PLAYER_1)
              ELSE IF p2_played
              THEN give_penalty_card([g EXCEPT !.tricks_won2 = g.tricks_won2 + 1], PLAYER_2)
              ELSE g
        cleared == g.flipped_card \o g.trick_card1 \o g.trick_card2
        g2 == [g1 EXCEPT !.flipped_card = None, !.trick_suit = None,
                         !.trick_card1 = None, !.trick_card2 = None,
                         !.play_commit1 = None, !.play_commit2 = None,
                         !.zk_play1 = FALSE, !.zk_play2 = FALSE]
    IN IF g2.hand1 = << >> \/ g2.hand2 = << >>
       THEN finalize_game(g2, session_id, determine_winner(g2), cleared)
       ELSE IF g2.draw_pile = << >>
       THEN finalize_game(g2, session_id, determine_winner(g2), cleared)
       ELSE Result("Ok", ArmDeadline(flip_next_card(g2)), hub_end, history,
                   noir_flag, cleared)

\* A resolution that plays on after a hand has run out of cards.
resolve_trick_playing_on(session_id, g) ==
    LET p1_played == IsSome(g.trick_card1)
        p2_played == IsSome(g.trick_card2)
        g1 == IF p1_played /\ p2_played
              THEN IF Value(Unwrap(g.trick_card1)) >= Value(Unwrap(g.trick_card2))
                   THEN [g EXCEPT !.tricks_won1 = g.tricks_won1 + 1]
                   ELSE [g EXCEPT !.tricks_won2 = g.tricks_won2 + 1]
              ELSE IF p1_played
              THEN give_penalty_card([g EXCEPT !.tricks_won1 = g.tricks_won1 + 1], PLAYER_2)
              ELSE IF p2_played
              THEN give_penalty_card([g EXCEPT !.tricks_won2 = g.tricks_won2 + 1], PLAYER_1)
              ELSE g
        cleared == g.flipped_card \o g.trick_card1 \o g.trick_card2
        g2 == [g1 EXCEPT !.flipped_card = None, !.trick_suit = None,
                         !.trick_card1 = None, !.trick_card2 = None,
                         !.play_commit1 = None, !.play_commit2 = None,
                         !.zk_play1 = FALSE, !.zk_play2 = FALSE]
    IN IF g2.draw_pile = << >>
       THEN finalize_game(g2, session_id, determine_winner(g2), cleared)
       ELSE Result("Ok", ArmDeadline(flip_next_card(g2)), hub_end, history,
                   noir_flag, cleared)


resolve_trick(session_id, g) ==
    LET p1_played == IsSome(g.trick_card1)
        p2_played == IsSome(g.trick_card2)
        g1 == IF p1_played /\ p2_played
              THEN IF Value(Unwrap(g.trick_card1)) >= Value(Unwrap(g.trick_card2))
                   THEN [g EXCEPT !.tricks_won1 = g.tricks_won1 + 1]
                   ELSE [g EXCEPT !.tricks_won2 = g.tricks_won2 + 1]
              ELSE IF p1_played
              THEN give_penalty_card([g EXCEPT !.tricks_won1 = g.tricks_won1 + 1], PLAYER_2)
              ELSE IF p2_played
              THEN give_penalty_card([g EXCEPT !.tricks_won2 = g.tricks_won2 + 1], PLAYER_1)
              ELSE g
        cleared == g.flipped_card \o g.trick_card1 \o g.trick_card2
        g2 == [g1 EXCEPT !.flipped_card = None, !.trick_suit = None,
                         !.trick_card1 = None, !.trick_card2 = None,
                         !.play_commit1 = None, !.play_commit2 = None,
                         !.zk_play1 = FALSE, !.zk_play2 = FALSE]
    IN IF g2.hand1 = << >> \/ g2.hand2 = << >>
       THEN finalize_game(g2, session_id, determine_winner(g2), cleared)
       ELSE IF g2.draw_pile = << >>
       THEN finalize_game(g2, session_id, determine_winner(g2), cleared)
       ELSE Result("Ok", ArmDeadline(flip_next_card(g2)), hub_end, history,
                   noir_flag, cleared)

\* The commit checks without the comparison of expected_nonce.
CommitGuardAnyNonce(session_id, player, expected_nonce) ==
    IF ~GameFound(session_id) THEN "GameNotFound"
    ELSE IF game.lifecycle_state # STATE_PLAYING THEN "WrongPhase"
    ELSE IF resolve_slot(game, player) = 0 THEN "NotAPlayer"
    ELSE IF ~require_commit_phase(game, resolve_slot(game, player)) THEN "NotYourTurn"
    ELSE IF resolve_slot(game, player) = PLAYER_1 /\ IsSome(game.play_commit1)
    THEN "PlayCommitAlreadySubmitted"
    ELSE IF resolve_slot(game, player) # PLAYER_1 /\ IsSome(game.play_commit2)
    THEN "PlayCommitAlreadySubmitted"
    ELSE "Ok"

\* The guards the three commit entry points share, as the first error they
\* raise ("Ok" when the commit may go on).
CommitGuard(session_id, player, expected_nonce) ==
    IF ~GameFound(session_id) THEN "GameNotFound"
    ELSE IF game.lifecycle_state # STATE_PLAYING THEN "WrongPhase"
    ELSE IF expected_nonce # game.action_nonce THEN "InvalidNonce"
    ELSE IF resolve_slot(game, player) = 0 THEN "NotAPlayer"
    ELSE IF ~require_commit_phase(game, resolve_slot(game, player)) THEN "NotYourTurn"
    ELSE IF resolve_slot(game, player) = PLAYER_1 /\ IsSome(game.play_commit1)
    THEN "PlayCommitAlreadySubmitted"
    ELSE IF resolve_slot(game, player) # PLAYER_1 /\ IsSome(game.play_commit2)
    THEN "PlayCommitAlreadySubmitted"
    ELSE "Ok"

\* A store that never marks the commit as a ZK one.
StoreCommit_unmarked(slot, commit_hash, zk) ==
    LET g1 == IF slot = PLAYER_1
              THEN [game EXCEPT !.play_commit1 = Some(commit_hash)]
              ELSE [game EXCEPT !.play_commit2 = Some(commit_hash)]
    IN ArmDeadline(bump_nonce(advance_commit_state(g1, slot)))


\* Store the commit, advance the trick state, bump the nonce, re-arm.
StoreCommit(slot, commit_hash, zk) ==
    LET g1 == IF slot = PLAYER_1
              THEN [game EXCEPT !.play_commit1 = Some(commit_hash),
                                !.zk_play1 = IF zk THEN TRUE ELSE game.zk_play1]
              ELSE [game EXCEPT !.play_commit2 = Some(commit_hash),
                                !.zk_play2 = IF zk THEN TRUE ELSE game.zk_play2]
    IN ArmDeadline(bump_nonce(advance_commit_state(g1, slot)))

commit_play(session_id, player, commit_hash, expected_nonce) ==
    LET guard == CommitGuard(session_id, player, expected_nonce)
    IN IF guard # "Ok" THEN Err(guard)
       ELSE Ok(StoreCommit(resolve_slot(game, player), commit_hash, FALSE))

commit_play_zk(session_id, player, commit_hash, expected_nonce, zk_proof) ==
    LET guard == CommitGuard(session_id, player, expected_nonce)
        slot == resolve_slot(game, player)
        valid_set == ValidSet(get_hand(game, slot), Unwrap(game.trick_suit))
        n == Len(valid_set)
    IN IF guard # "Ok" THEN Err(guard)
       ELSE IF IsNone(game.trick_suit) THEN Err("NoTrickInProgress")
       ELSE IF n = 0 THEN Err("ZkPlaySetEmpty")
       ELSE IF ~verify(PublicInputs(32 + 4 + 4 * n + 4 + AddressLen, commit_hash, 0,
                                    NoDigest, NoPoint, valid_set, 0, session_id, player),
                       zk_proof)
       THEN Err("ZkPlayProofInvalid")
       ELSE Ok(StoreCommit(slot, commit_hash, TRUE))

commit_cangkul_zk(session_id, player, commit_hash, expected_nonce, zk_proof) ==
    LET guard == CommitGuard(session_id, player, expected_nonce)
        slot == resolve_slot(game, player)
        hand == get_hand(game, slot)
        k == Len(hand)
    IN IF guard # "Ok" THEN Err(guard)
       ELSE IF IsNone(game.trick_suit) THEN Err("NoTrickInProgress")
       ELSE IF has_suit_in_hand(hand, Unwrap(game.trick_suit)) THEN Err("HasMatchingSuit")
       ELSE IF ~verify(PublicInputs(32 + 4 + 4 + 4 * k + 4 + AddressLen, commit_hash, 0,
                                    NoDigest, NoPoint, hand, Unwrap(game.trick_suit),
                                    session_id, player),
                       zk_proof)
       THEN Err("ZkCangkulProofInvalid")
       ELSE Ok(StoreCommit(slot, commit_hash, TRUE))

\* A recomputation that takes the salt from the stored commit, not the caller.
ComputedHashStoredSalt(g, slot, card_id, salt) ==
    LET commit == IF slot = PLAYER_1 THEN g.play_commit1 ELSE g.play_commit2
        own == IF IsSome(commit) THEN Unwrap(commit).y ELSE salt
    IN IF (IF slot = PLAYER_1 THEN g.zk_play1 ELSE g.zk_play2)
       THEN IF card_id = CANNOT_FOLLOW_SENTINEL
            THEN KeccakPoint(pedersen_commit(SumSeq(get_hand(g, slot)), own))
            ELSE KeccakPoint(pedersen_commit(card_id, own))
       ELSE KeccakPlay(card_id, own)

\* The hash reveal_play recomputes from the opening, by the mode of the commit.
ComputedHash(g, slot, card_id, salt) ==
    IF (IF slot = PLAYER_1 THEN g.zk_play1 ELSE g.zk_play2)
    THEN IF card_id = CANNOT_FOLLOW_SENTINEL
         THEN KeccakPoint(pedersen_commit(SumSeq(get_hand(g, slot)), salt))
         ELSE KeccakPoint(pedersen_commit(card_id, salt))
    ELSE KeccakPlay(card_id, salt)

\* A reveal that takes a card of any suit.
reveal_play_any_suit(session_id, player, card_id, salt) ==
    IF ~GameFound(session_id) THEN Err("GameNotFound")
    ELSE IF game.lifecycle_state # STATE_PLAYING THEN Err("WrongPhase")
    ELSE LET slot == resolve_slot(game, player)
             commit == IF slot = PLAYER_1 THEN game.play_commit1 ELSE game.play_commit2
             is_zk == IF slot = PLAYER_1 THEN game.zk_play1 ELSE game.zk_play2
             is_cangkul == card_id = CANNOT_FOLLOW_SENTINEL
             hand == get_hand(game, slot)
             card_pos == find_card_position(hand, card_id)
             g1 == IF is_cangkul THEN game
                   ELSE LET h == set_hand(game, slot, RemoveAt(hand, card_pos))
                        IN IF slot = PLAYER_1
                           THEN [h EXCEPT !.trick_card1 = Some(card_id)]
                           ELSE [h EXCEPT !.trick_card2 = Some(card_id)]
             g2 == bump_nonce(advance_reveal_state(g1, slot))
         IN IF slot = 0 THEN Err("NotAPlayer")
            ELSE IF ~require_reveal_phase(game, slot) THEN Err("NotYourTurn")
            ELSE IF IsNone(commit) THEN Err("PlayCommitMissing")
            ELSE IF ComputedHash(game, slot, card_id, salt) # Unwrap(commit)
            THEN Err(IF is_zk THEN "ZkPlayOpeningMismatch" ELSE "PlayRevealMismatch")
            ELSE IF is_cangkul /\ IsNone(game.trick_suit) THEN Err("NoTrickInProgress")
            ELSE IF is_cangkul /\ has_suit_in_hand(hand, Unwrap(game.trick_suit))
            THEN Err("HasMatchingSuit")
            ELSE IF ~is_cangkul /\ card_id >= DECK_SIZE THEN Err("InvalidCardId")
            ELSE IF ~is_cangkul /\ card_pos = 0 THEN Err("CardNotInHand")
            ELSE IF ~is_cangkul /\ IsNone(game.trick_suit) THEN Err("NoTrickInProgress")
            ELSE IF g2.trick_state = TRICK_NONE THEN resolve_trick(session_id, g2)
            ELSE Ok(ArmDeadline(g2))


reveal_play(session_id, player, card_id, salt) ==
    IF ~GameFound(session_id) THEN Err("GameNotFound")
    ELSE IF game.lifecycle_state # STATE_PLAYING THEN Err("WrongPhase")
    ELSE LET slot == resolve_slot(game, player)
             commit == IF slot = PLAYER_1 THEN game.play_commit1 ELSE game.play_commit2
             is_zk == IF slot = PLAYER_1 THEN game.zk_play1 ELSE game.zk_play2
             is_cangkul == card_id = CANNOT_FOLLOW_SENTINEL
             hand == get_hand(game, slot)
             card_pos == find_card_position(hand, card_id)
             g1 == IF is_cangkul THEN game
                   ELSE LET h == set_hand(game, slot, RemoveAt(hand, card_pos))
                        IN IF slot = PLAYER_1
                           THEN [h EXCEPT !.trick_card1 = Some(card_id)]
                           ELSE [h EXCEPT !.trick_card2 = Some(card_id)]
             g2 == bump_nonce(advance_reveal_state(g1, slot))
         IN IF slot = 0 THEN Err("NotAPlayer")
            ELSE IF ~require_reveal_phase(game, slot) THEN Err("NotYourTurn")
            ELSE IF IsNone(commit) THEN Err("PlayCommitMissing")
            ELSE IF ComputedHash(game, slot, card_id, salt) # Unwrap(commit)
            THEN Err(IF is_zk THEN "ZkPlayOpeningMismatch" ELSE "PlayRevealMismatch")
            ELSE IF is_cangkul /\ IsNone(game.trick_suit) THEN Err("NoTrickInProgress")
            ELSE IF is_cangkul /\ has_suit_in_hand(hand, Unwrap(game.trick_suit))
            THEN Err("HasMatchingSuit")
            ELSE IF ~is_cangkul /\ card_id >= DECK_SIZE THEN Err("InvalidCardId")
            ELSE IF ~is_cangkul /\ card_pos = 0 THEN Err("CardNotInHand")
            ELSE IF ~is_cangkul /\ IsNone(game.trick_suit) THEN Err("NoTrickInProgress")
            ELSE IF ~is_cangkul /\ Suit(card_id) # Unwrap(game.trick_suit)
            THEN Err("WrongSuit")
            ELSE IF g2.trick_state = TRICK_NONE THEN resolve_trick(session_id, g2)
            ELSE Ok(ArmDeadline(g2))

\* A tick without the rate limit.
tick_timeout_unlimited(session_id, caller) ==
    IF ~GameFound(session_id) THEN Err("GameNotFound")
    ELSE IF ~require_active(game) THEN Err("GameAlreadyEnded")
    ELSE IF resolve_slot(game, caller) = 0 THEN Err("NotAPlayer")
    ELSE Ok(bump_nonce([game EXCEPT !.last_tick_ledger = ledger]))

tick_timeout(session_id, caller) ==
    IF ~GameFound(session_id) THEN Err("GameNotFound")
    ELSE IF ~require_active(game) THEN Err("GameAlreadyEnded")
    ELSE IF resolve_slot(game, caller) = 0 THEN Err("NotAPlayer")
    ELSE IF ledger < SatAdd(game.last_tick_ledger, MIN_TICK_GAP_LEDGERS)
    THEN Err("TickTooSoon")
    ELSE Ok(bump_nonce([game EXCEPT !.last_tick_ledger = ledger]))

\* A resolution that asks for both bounds to be reached.
resolve_timeout_both_bounds(session_id, caller) ==
    IF ~GameFound(session_id) THEN Err("GameNotFound")
    ELSE IF ~require_active(game) THEN Err("GameAlreadyEnded")
    ELSE IF resolve_slot(game, caller) = 0 THEN Err("NotAPlayer")
    ELSE IF IsNone(game.deadline_nonce) THEN Err("TimeoutNotConfigured")
    ELSE LET nonce_expired == game.action_nonce >= Unwrap(game.deadline_nonce)
             ledger_expired == IsSome(game.deadline_ledger)
                                   /\ ledger >= Unwrap(game.deadline_ledger)
             outcome == determine_timeout_outcome(game)
         IN IF ~nonce_expired \/ ~ledger_expired THEN Err("TimeoutNotReached")
            ELSE IF outcome = 0 THEN Err("TimeoutNotApplicable")
            ELSE finalize_game(game, session_id, outcome, << >>)


\* A resolution that only asks for an armed deadline, not an expired one.
resolve_timeout_early(session_id, caller) ==
    IF ~GameFound(session_id) THEN Err("GameNotFound")
    ELSE IF ~require_active(game) THEN Err("GameAlreadyEnded")
    ELSE IF resolve_slot(game, caller) = 0 THEN Err("NotAPlayer")
    ELSE IF IsNone(game.deadline_nonce) THEN Err("TimeoutNotConfigured")
    ELSE LET outcome == determine_timeout_outcome(game)
         IN IF outcome = 0 THEN Err("TimeoutNotApplicable")
            ELSE finalize_game(game, session_id, outcome, << >>)

resolve_timeout(session_id, caller) ==
    IF ~GameFound(session_id) THEN Err("GameNotFound")
    ELSE IF ~require_active(game) THEN Err("GameAlreadyEnded")
    ELSE IF resolve_slot(game, caller) = 0 THEN Err("NotAPlayer")
    ELSE IF IsNone(game.deadline_nonce) THEN Err("TimeoutNotConfigured")
    ELSE LET nonce_expired == game.action_nonce >= Unwrap(game.deadline_nonce)
             ledger_expired == IsSome(game.deadline_ledger)
                                   /\ ledger >= Unwrap(game.deadline_ledger)
             outcome == determine_timeout_outcome(game)
         IN IF ~nonce_expired /\ ~ledger_expired THEN Err("TimeoutNotReached")
            ELSE IF outcome = 0 THEN Err("TimeoutNotApplicable")
            ELSE finalize_game(game, session_id, outcome, << >>)

\* A forfeit that hands the game to the caller.
forfeit_caller_wins(session_id, caller) ==
    IF ~GameFound(session_id) THEN Err("GameNotFound")
    ELSE IF ~require_active(game) THEN Err("GameAlreadyEnded")
    ELSE IF resolve_slot(game, caller) = 0 THEN Err("NotAPlayer")
    ELSE finalize_game(game, session_id,
                       IF resolve_slot(game, caller) = PLAYER_1
                       THEN OUTCOME_PLAYER1_WIN ELSE OUTCOME_PLAYER2_WIN,
                       << >>)


forfeit(session_id, caller) ==
    IF ~GameFound(session_id) THEN Err("GameNotFound")
    ELSE IF ~require_active(game) THEN Err("GameAlreadyEnded")
    ELSE IF resolve_slot(game, caller) = 0 THEN Err("NotAPlayer")
    ELSE finalize_game(game, session_id,
                       IF resolve_slot(game, caller) = PLAYER_1
                       THEN OUTCOME_PLAYER2_WIN ELSE OUTCOME_PLAYER1_WIN,
                       << >>)

(***************************************************************************)
(* Read entry points: the result code and the record returned              *)
(***************************************************************************)
View(res, g) == [res |-> res, view |-> g]

\* The record get_game returns for the stored record g.
redacted_game(g) ==
    IF g.lifecycle_state # STATE_FINISHED
    THEN [g EXCEPT !.hand1 = << >>, !.hand2 = << >>, !.draw_pile = << >>]
    ELSE g

get_game(session_id) ==
    IF ~GameFound(session_id) THEN View("GameNotFound", game)
    ELSE View("Ok", redacted_game(game))

\* The record get_game_view returns to `viewer' for the stored record g.
redacted_view(g, viewer) ==
    IF resolve_slot(g, viewer) = PLAYER_1
    THEN [g EXCEPT !.hand2 = << >>,
                   !.trick_card2 = IF g.trick_state = TRICK_REVEAL_WAIT_P1 THEN None ELSE @]
    ELSE IF resolve_slot(g, viewer) = PLAYER_2
    THEN [g EXCEPT !.hand1 = << >>,
                   !.trick_card1 = IF g.trick_state = TRICK_REVEAL_WAIT_P2 THEN None ELSE @]
    ELSE [g EXCEPT !.hand1 = << >>, !.hand2 = << >>]

get_game_view(session_id, viewer) ==
    IF ~GameFound(session_id) THEN View("GameNotFound", game)
    ELSE View("Ok", redacted_view(game, viewer))

\* The result code and the deck verify_shuffle returns once it has read the
\* record g.
shuffle_audit(g, session_id) ==
    IF g.lifecycle_state < STATE_PLAYING THEN [res |-> "WrongPhase", deck |-> << >>]
    ELSE IF IsNone(g.seed_hash1) \/ IsNone(g.seed_hash2)
    THEN [res |-> "MissingCommit", deck |-> << >>]
    ELSE [res |-> "Ok",
          deck |-> ShuffledDeck(Unwrap(g.seed_hash1), Unwrap(g.seed_hash2), session_id)]

verify_shuffle(session_id) ==
    IF ~GameFound(session_id) THEN [res |-> "GameNotFound", deck |-> << >>]
    ELSE shuffle_audit(game, session_id)


(***************************************************************************)
(* Inputs of the calls                                                     *)
(***************************************************************************)
SessionIds == {SessionId}
SeedHashes == {1, 2}
WeakSeedHash == 0

\* A player commits to seed 1 in NIZK mode or to seed 2 in Noir mode.
SeedCommits(player) == {NizkCommitment(1, GoodSalt, player), KeccakSeedHash(2)}

SeedProofs(player) ==
    {EmptyProof, ShortProof}
        \cup { NizkProof(h, GoodSalt, SessionId, player) : h \in SeedHashes }

\* Cards a player may try in a trick: the first and the last card that
\* follow suit, the first that does not, the flipped card (in nobody's
\* hand), an id outside the deck, and the cannot-follow sentinel.
CandidateCards(g, slot) ==
    LET hand == get_hand(g, slot)
        vs == IF IsSome(g.trick_suit) THEN ValidSet(hand, Unwrap(g.trick_suit)) ELSE << >>
        off == { hand[i] : i \in { j \in 1..Len(hand) :
                     /\ IsSome(g.trick_suit)
                     /\ Suit(hand[j]) # Unwrap(g.trick_suit)
                     /\ \A k \in 1..(j - 1) : Suit(hand[k]) = Unwrap(g.trick_suit) } }
    IN (IF vs = << >> THEN {} ELSE {vs[1], vs[Len(vs)]})
           \cup off \cup SeqToSet(g.flipped_card)
           \cup {DECK_SIZE, CANNOT_FOLLOW_SENTINEL}

Nonces(g) == {g.action_nonce, g.action_nonce + 1}

(***************************************************************************)
(* Actions                                                                 *)
(***************************************************************************)
\* A call made by `caller' that returns Ok: its effects are stored.  A call
\* that returns an error is rolled back by the host and is no step at all.
\* reveal_play runs resolve_trick when it is the second reveal of the trick.
SecondRevealPlay(op) ==
    /\ op = "reveal_play"
    /\ game.trick_state \in {TRICK_REVEAL_WAIT_P1, TRICK_REVEAL_WAIT_P2}

Call(op, caller, r) ==
    /\ r.res = "Ok"
    /\ game' = r.g
    /\ stored' = (stored \/ r.started)
    /\ hub_start' = hub_start + (IF r.started THEN 1 ELSE 0)
    /\ hub_end' = r.hub_end
    /\ history' = r.history
    /\ noir_flag' = r.noir_flag
    /\ removed' = removed \o r.cleared
    /\ resolved' = resolved + (IF SecondRevealPlay(op) THEN 1 ELSE 0)
    /\ last' = [op |-> op, caller |-> caller]
    /\ UNCHANGED << ledger, zk_call >>

StartGame ==
    \E sid \in SessionIds, p2 \in {Alice, Bob} :
        Call("start_game", Alice, start_game(sid, Alice, p2))

CommitSeed ==
    \E sid \in SessionIds, player \in Addresses :
        \E commit_hash \in SeedCommits(player) :
            Call("commit_seed", player, commit_seed(sid, player, commit_hash))

RevealSeed ==
    \E sid \in SessionIds, player \in Addresses :
        \E seed_hash \in SeedHashes \cup {WeakSeedHash}, proof \in SeedProofs(player) :
            Call("reveal_seed", player, reveal_seed(sid, player, seed_hash, proof))

VerifyNoirSeed ==
    \E sid \in SessionIds, player \in Addresses :
        \E seed_hash \in SeedHashes \cup {WeakSeedHash},
           proof \in {ShortProof} \cup { NoirProof(h) : h \in SeedHashes } :
            Call("verify_noir_seed", player, verify_noir_seed(sid, player, seed_hash, proof))

CommitPlayCard(sid, player, card, nonce) ==
    Call("commit_play", player,
         commit_play(sid, player, KeccakPlay(card, GoodSalt), nonce))

\* A ring proof built over the cards of the hand that follow suit.
CommitPlayZkCard(sid, player, card, nonce) ==
    LET slot == resolve_slot(game, player)
        vs == IF IsSome(game.trick_suit)
              THEN ValidSet(get_hand(game, slot), Unwrap(game.trick_suit))
              ELSE << >>
    IN Call("commit_play_zk", player,
            commit_play_zk(sid, player, KeccakPoint(pedersen_commit(card, GoodSalt)),
                           nonce, RingProof(card, GoodSalt, vs, sid, player)))

\* An aggregate proof built over the whole hand.
CommitCangkulZkHand(sid, player, nonce) ==
    LET hand == get_hand(game, resolve_slot(game, player))
        suit == IF IsSome(game.trick_suit) THEN Unwrap(game.trick_suit) ELSE 0
    IN Call("commit_cangkul_zk", player,
            commit_cangkul_zk(sid, player,
                              KeccakPoint(pedersen_commit(SumSeq(hand), GoodSalt)), nonce,
                              CangkulProof(hand, GoodSalt, suit, sid, player)))

CommitPlay ==
    /\ game.action_nonce < MaxNonce
    /\ \E sid \in SessionIds, player \in Addresses, nonce \in Nonces(game) :
        \E card \in CandidateCards(game, resolve_slot(game, player)) :
            CommitPlayCard(sid, player, card, nonce)

CommitPlayZk ==
    /\ game.action_nonce < MaxNonce
    /\ \E sid \in SessionIds, player \in Addresses, nonce \in Nonces(game) :
        \E card \in CandidateCards(game, resolve_slot(game, player)) :
            CommitPlayZkCard(sid, player, card, nonce)

CommitCangkulZk ==
    /\ game.action_nonce < MaxNonce
    /\ \E sid \in SessionIds, player \in Addresses, nonce \in Nonces(game) :
        CommitCangkulZkHand(sid, player, nonce)

RevealPlay ==
    \E sid \in SessionIds, player \in Addresses, salt \in Salts :
        \E card_id \in CandidateCards(game, resolve_slot(game, player)) :
            Call("reveal_play", player, reveal_play(sid, player, card_id, salt))

TickTimeout ==
    \E sid \in SessionIds, caller \in Addresses :
        Call("tick_timeout", caller, tick_timeout(sid, caller))

ResolveTimeout ==
    \E sid \in SessionIds, caller \in Addresses :
        Call("resolve_timeout", caller, resolve_timeout(sid, caller))

Forfeit ==
    \E sid \in SessionIds, caller \in Addresses :
        Call("forfeit", caller, forfeit(sid, caller))

\* Ledgers close.
AdvanceLedger ==
    /\ \E d \in LedgerSteps :
        /\ ledger + d <= InitialLedger + MaxLedgerAdvance
        /\ ledger' = ledger + d
    /\ UNCHANGED << stored, game, hub_start, hub_end, history, noir_flag, removed,
                    resolved, last, zk_call >>

Init ==
    /\ stored = FALSE
    /\ game = NewGame(0, 0)
    /\ ledger = InitialLedger
    /\ hub_start = 0
    /\ hub_end = << >>
    /\ history = [a \in Addresses |-> << >>]
    /\ noir_flag = [slot \in {PLAYER_1, PLAYER_2} |-> None]
    /\ removed = << >>
    /\ resolved = 0
    /\ last = [op |-> "none", caller |-> 0]
    /\ zk_call = NoZkCall

Next ==
    \/ StartGame
    \/ CommitSeed
    \/ RevealSeed
    \/ VerifyNoirSeed
    \/ CommitPlay
    \/ CommitPlayZk
    \/ CommitCangkulZk
    \/ RevealPlay
    \/ TickTimeout
    \/ ResolveTimeout
    \/ Forfeit
    \/ AdvanceLedger

Spec == Init /\ [][Next]_vars

(***************************************************************************)
(* Honest clients: each player commits to the first card of the hand that  *)
(* follows suit, or to cannot-follow when there is none, with the current  *)
(* nonce.  With them a game runs on to its natural end.                    *)
(***************************************************************************)
HonestCards(g, slot) ==
    LET vs == IF IsSome(g.trick_suit)
              THEN ValidSet(get_hand(g, slot), Unwrap(g.trick_suit))
              ELSE << >>
    IN IF vs = << >> THEN {CANNOT_FOLLOW_SENTINEL} ELSE {vs[1]}

HonestCommitPlay ==
    \E sid \in SessionIds, player \in {Alice, Bob} :
        \E card \in HonestCards(game, resolve_slot(game, player)) :
            CommitPlayCard(sid, player, card, game.action_nonce)

HonestCommitPlayZk ==
    \E sid \in SessionIds, player \in {Alice, Bob} :
        \E card \in HonestCards(game, resolve_slot(game, player)) :
            CommitPlayZkCard(sid, player, card, game.action_nonce)

HonestCommitCangkulZk ==
    \E sid \in SessionIds, player \in {Alice, Bob} :
        CommitCangkulZkHand(sid, player, game.action_nonce)

NextHonest ==
    \/ StartGame
    \/ CommitSeed
    \/ RevealSeed
    \/ VerifyNoirSeed
    \/ HonestCommitPlay
    \/ HonestCommitPlayZk
    \/ HonestCommitCangkulZk
    \/ RevealPlay
    \/ TickTimeout
    \/ ResolveTimeout
    \/ Forfeit
    \/ AdvanceLedger

SpecHonest == Init /\ [][NextHonest]_vars

(***************************************************************************)
(* Honest play without interruption: the session is set up and the two     *)
(* players play, nobody ticking, forfeiting or claiming a timeout, and     *)
(* each awaited player eventually makes a move.                            *)
(***************************************************************************)
\* The moves of a player who follows the rules: a commit to a legal action
\* under the current nonce, or the reveal that opens the stored commit.
HonestMove ==
    HonestCommitPlay \/ HonestCommitPlayZk \/ HonestCommitCangkulZk \/ RevealPlay

NextPlay ==
    \/ StartGame
    \/ CommitSeed
    \/ RevealSeed
    \/ HonestCommitPlay
    \/ HonestCommitPlayZk
    \/ HonestCommitCangkulZk
    \/ RevealPlay

SpecPlayFair == Init /\ [][NextPlay]_vars /\ WF_vars(HonestMove)

(***************************************************************************)
(* A session of players who come with histories of earlier sessions:       *)
(* empty, one short of full, or full.  The session is set up, played       *)
(* honestly, and ended by the last trick, a timeout or a forfeit.          *)
(***************************************************************************)
\* The summary the i-th of the earlier sessions left, against the third
\* address, i-th also in time.
EarlierSummary(i) ==
    [ session_id |-> SessionId + i, opponent |-> Carol, outcome |-> 1 + (i % 3),
      tricks_won |-> i % 4, tricks_lost |-> (i + 1) % 4, ledger |-> i ]

EarlierHistory(n) == [i \in 1..n |-> EarlierSummary(i)]

HistorySizes == {0, MAX_HISTORY_PER_PLAYER - 1, MAX_HISTORY_PER_PLAYER}

InitHistory ==
    /\ stored = FALSE
    /\ game = NewGame(0, 0)
    /\ ledger = InitialLedger
    /\ hub_start = 0
    /\ hub_end = << >>
    /\ \E n1 \in HistorySizes, n2 \in HistorySizes :
           history = [a \in Addresses |->
                          IF a = Alice THEN EarlierHistory(n1)
                          ELSE IF a = Bob THEN EarlierHistory(n2)
                          ELSE << >>]
    /\ noir_flag = [slot \in {PLAYER_1, PLAYER_2} |-> None]
    /\ removed = << >>
    /\ resolved = 0
    /\ last = [op |-> "none", caller |-> 0]
    /\ zk_call = NoZkCall

NextHistory ==
    \/ StartGame
    \/ CommitSeed
    \/ RevealSeed
    \/ HonestCommitPlay
    \/ HonestCommitPlayZk
    \/ HonestCommitCangkulZk
    \/ RevealPlay
    \/ TickTimeout
    \/ ResolveTimeout
    \/ Forfeit
    \/ AdvanceLedger

SpecHistory == InitHistory /\ [][NextHistory]_vars


(***************************************************************************)
(* The verifier contract called on its own: proofs of every mode, with the *)
(* public inputs that go with them, cut or padded to other lengths and     *)
(* with a witness that does or does not match.                             *)
(***************************************************************************)
\* Largest ring drawn: one card more than the verifier takes.
MaxRing == 10

\* Proof lengths drawn: 0, under every mode, each mode's length, the length
\* the game contract strips to 128, rings of 1, 9 and 10 cards, a Noir proof.
VerifyProofLens == {0, 10, 64, 96, 128, 160, 224, 228, 672, 736, 14592}

\* Public-input lengths drawn beside the one that goes with the proof: the
\* fixed prefix of mode 2 alone, and less than that.
VerifyInputLens == {60, 100}

RingSet(n) == [i \in 1..n |-> i - 1]

\* The (public_inputs, proof) pairs a client builds for a statement it knows
\* a witness of, the proof computed with blinding r.
VerifyCases(r) ==
    { [ pi |-> PublicInputs(100 + AddressLen, NizkCommitment(1, GoodSalt, Alice), 1,
                            Nullifier(1, SessionId), NoPoint, << >>, 0, SessionId, Alice),
        proof |-> NizkProof(1, r, SessionId, Alice) ],
      [ pi |-> PublicInputs(96 + 32 + 4 + AddressLen, NoDigest, 1, NoDigest,
                            pedersen_commit(1, GoodSalt), << >>, 0, SessionId, Alice),
        proof |-> Proof(128, pedersen_commit(1, GoodSalt), 1, r, << >>, 0, SessionId,
                        Alice, NoDigest) ],
      [ pi |-> PublicInputs(32 + 4 + 4 + 4 * 2 + 4 + AddressLen,
                            KeccakPoint(pedersen_commit(19, GoodSalt)), 0, NoDigest,
                            NoPoint, << 9, 10 >>, 0, SessionId, Alice),
        proof |-> [CangkulProof(<< 9, 10 >>, GoodSalt, 0, SessionId, Alice)
                       EXCEPT !.r = r] ] }
    \cup
    { [ pi |-> PublicInputs(32 + 4 + 4 * n + 4 + AddressLen,
                            KeccakPoint(pedersen_commit(0, GoodSalt)), 0, NoDigest,
                            NoPoint, RingSet(n), 0, SessionId, Alice),
        proof |-> RingProof(0, r, RingSet(n), SessionId, Alice) ] : n \in {1, 9, MaxRing} }

\* The calls drawn: each case as built, and with the proof or the public
\* inputs given another length.
VerifyCalls ==
    { [ pi |-> [c.pi EXCEPT !.len = il], proof |-> [c.proof EXCEPT !.len = pl] ] :
          c \in VerifyCases(GoodSalt) \cup VerifyCases(OtherSalt),
          il \in VerifyInputLens \cup {0}, pl \in VerifyProofLens \cup {0} }
    \cup
    { [ pi |-> [c.pi EXCEPT !.len = IF il = 0 THEN c.pi.len ELSE il],
        proof |-> [c.proof EXCEPT !.len = IF pl = 0 THEN c.proof.len ELSE pl] ] :
          c \in VerifyCases(GoodSalt) \cup VerifyCases(OtherSalt),
          il \in VerifyInputLens \cup {0}, pl \in VerifyProofLens }

InitVerify ==
    /\ stored = FALSE
    /\ game = NewGame(0, 0)
    /\ ledger = InitialLedger
    /\ hub_start = 0
    /\ hub_end = << >>
    /\ history = [a \in Addresses |-> << >>]
    /\ noir_flag = [slot \in {PLAYER_1, PLAYER_2} |-> None]
    /\ removed = << >>
    /\ resolved = 0
    /\ last = [op |-> "none", caller |-> 0]
    /\ \E c \in VerifyCalls :
           zk_call = [ calls |-> 0, public_inputs |-> c.pi, proof |-> c.proof,
                       mode |-> 0, result |-> FALSE ]

\* verify(public_inputs, proof) is called, a first and a second time.
ApplyVerify ==
    /\ zk_call.calls < 2
    /\ zk_call' = [zk_call EXCEPT !.calls = zk_call.calls + 1,
                                  !.mode = verify_mode(zk_call.public_inputs, zk_call.proof),
                                  !.result = verify(zk_call.public_inputs, zk_call.proof)]
    /\ last' = [op |-> "verify", caller |-> 0]
    /\ UNCHANGED << stored, game, ledger, hub_start, hub_end, history, noir_flag,
                    removed, resolved >>

NextVerify == ApplyVerify

SpecVerify == InitVerify /\ [][NextVerify]_vars


(***************************************************************************)
(* determine_winner applied to hands and trick counters drawn at will      *)
(***************************************************************************)
\* Longest hand and highest trick counter drawn.
MaxWinnerHand == 2
MaxWinnerTricks == 2

\* Cards drawn into the hands: values 2, 3 and 10 in two suits.
WinnerCards == {0, 1, 8, 9, 17}

\* The hands of at most MaxWinnerHand distinct cards, in every order.
RECURSIVE HandsUpTo(_)
HandsUpTo(n) ==
    IF n = 0 THEN {<< >>}
    ELSE LET shorter == HandsUpTo(n - 1)
         IN shorter \cup { Append(h, c) : h \in shorter, c \in WinnerCards }
WinnerHands ==
    { h \in HandsUpTo(MaxWinnerHand) : \A i, j \in 1..Len(h) : i # j => h[i] # h[j] }

\* A session in play with the hands and counters drawn.
InitWinner ==
    /\ stored = TRUE
    /\ \E h1 \in WinnerHands, h2 \in WinnerHands,
          t1 \in 0..MaxWinnerTricks, t2 \in 0..MaxWinnerTricks :
            game = [NewGame(Alice, Bob) EXCEPT !.lifecycle_state = STATE_PLAYING,
                                               !.trick_state = TRICK_COMMIT_WAIT_BOTH,
                                               !.hand1 = h1, !.hand2 = h2,
                                               !.tricks_won1 = t1, !.tricks_won2 = t2]
    /\ ledger = InitialLedger
    /\ hub_start = 1
    /\ hub_end = << >>
    /\ history = [a \in Addresses |-> << >>]
    /\ noir_flag = [s \in {PLAYER_1, PLAYER_2} |-> None]
    /\ removed = << >>
    /\ resolved = 0
    /\ last = [op |-> "none", caller |-> 0]
    /\ zk_call = NoZkCall

\* The outcome determine_winner gives the session is written to it.
ApplyDetermineWinner ==
    /\ game.outcome = OUTCOME_UNRESOLVED
    /\ game' = [game EXCEPT !.outcome = determine_winner(game)]
    /\ last' = [op |-> "determine_winner", caller |-> 0]
    /\ UNCHANGED << stored, ledger, hub_start, hub_end, history, noir_flag, removed,
                    resolved, zk_call >>

NextWinner == ApplyDetermineWinner

SpecWinner == InitWinner /\ [][NextWinner]_vars

(***************************************************************************)
(* Properties                                                              *)
(***************************************************************************)
Playing == stored /\ game.lifecycle_state = STATE_PLAYING
Finished == stored /\ game.lifecycle_state = STATE_FINISHED

\* Every place a card can be, one after the other.
AllCards(g) ==
    g.hand1 \o g.hand2 \o g.draw_pile \o g.flipped_card \o g.trick_card1
        \o g.trick_card2 \o removed

\* C1: card conservation.  In every Playing state the two hands, the draw
\* pile, the flipped card, the trick cards revealed so far and the cards
\* earlier tricks removed hold each of the 36 cards 0..35 exactly once.
CardConservation ==
    Playing =>
        /\ Len(AllCards(game)) = DECK_SIZE
        /\ SeqToSet(AllCards(game)) = 0..(DECK_SIZE - 1)

\* A Playing state in the middle of a trick, after earlier tricks were
\* resolved and a penalty card was drawn.
CardConservationWitness ==
    /\ Playing
    /\ Len(removed) >= 4
    /\ Len(game.hand2) > HAND_SIZE
    /\ IsSome(game.trick_card1)

\* Every card either player might name in a call.
AnyCards == CandidateCards(game, PLAYER_1) \cup CandidateCards(game, PLAYER_2)

\* Whatever call is made, with whatever input, it returns an error and would
\* write the session, the hub log, the histories and the flags as they are.
Rejected(r) ==
    /\ r.res # "Ok"
    /\ r.g = game
    /\ r.hub_end = hub_end
    /\ r.history = history
    /\ r.noir_flag = noir_flag

EveryCallRejected ==
    /\ \A sid \in SessionIds, p1 \in Addresses, p2 \in Addresses :
           Rejected(start_game(sid, p1, p2))
    /\ \A sid \in SessionIds, player \in Addresses :
        /\ \A commit_hash \in SeedCommits(player) :
               Rejected(commit_seed(sid, player, commit_hash))
        /\ \A seed_hash \in SeedHashes \cup {WeakSeedHash},
              proof \in SeedProofs(player) \cup { NoirProof(h) : h \in SeedHashes } :
               /\ Rejected(reveal_seed(sid, player, seed_hash, proof))
               /\ Rejected(verify_noir_seed(sid, player, seed_hash, proof))
        /\ \A nonce \in Nonces(game), card \in AnyCards :
               /\ Rejected(commit_play(sid, player, KeccakPlay(card, GoodSalt), nonce))
               /\ Rejected(commit_play_zk(sid, player,
                       KeccakPoint(pedersen_commit(card, GoodSalt)), nonce,
                       RingProof(card, GoodSalt, << card >>, sid, player)))
               /\ Rejected(commit_cangkul_zk(sid, player,
                       KeccakPoint(pedersen_commit(card, GoodSalt)), nonce,
                       CangkulProof(<< card >>, GoodSalt, 0, sid, player)))
        /\ \A card_id \in AnyCards, salt \in Salts :
               Rejected(reveal_play(sid, player, card_id, salt))
        /\ Rejected(tick_timeout(sid, player))
        /\ Rejected(resolve_timeout(sid, player))
        /\ Rejected(forfeit(sid, player))

\* C2: Finished is terminal.  Once the session is Finished its outcome is
\* P1Win, P2Win or Draw, every call of every entry point (start_game with
\* the same id included) returns an error, and no step changes the session,
\* the hub log or the histories any more.
FinishedIsTerminal ==
    /\ [](Finished =>
            /\ game.outcome \in {OUTCOME_PLAYER1_WIN, OUTCOME_PLAYER2_WIN, OUTCOME_DRAW}
            /\ EveryCallRejected)
    /\ [][Finished =>
            /\ game' = game /\ stored' = stored
            /\ hub_start' = hub_start /\ hub_end' = hub_end
            /\ history' = history]_vars

\* A session that the last trick finished, seen some ledgers later.
FinishedIsTerminalWitness ==
    /\ Finished
    /\ last.op = "reveal_play"
    /\ game.outcome = OUTCOME_DRAW
    /\ ledger > InitialLedger

\* C3: rate floor.  In every state with an armed deadline the nonce deadline
\* has not expired before the ledger deadline: action_nonce >= deadline_nonce
\* implies ledger >= deadline_ledger.
RateFloor ==
    (stored /\ IsSome(game.deadline_nonce)
        /\ game.action_nonce >= Unwrap(game.deadline_nonce))
    => (IsSome(game.deadline_ledger) /\ ledger >= Unwrap(game.deadline_ledger))

SlotCommit(g, slot) == IF slot = PLAYER_1 THEN g.play_commit1 ELSE g.play_commit2
SlotZk(g, slot) == IF slot = PLAYER_1 THEN g.zk_play1 ELSE g.zk_play2

\* (action, salt) opens the commit stored for the slot, under the algorithm
\* the slot's zk flag selects.
Opens(g, slot, action, salt) ==
    /\ IsSome(SlotCommit(g, slot))
    /\ IF ~SlotZk(g, slot)
       THEN Unwrap(SlotCommit(g, slot)) = KeccakPlay(action, salt)
       ELSE IF action # CANNOT_FOLLOW_SENTINEL
       THEN Unwrap(SlotCommit(g, slot)) = KeccakPoint(pedersen_commit(action, salt))
       ELSE Unwrap(SlotCommit(g, slot))
                = KeccakPoint(pedersen_commit(SumSeq(get_hand(g, slot)), salt))

\* A step in which reveal_play returned Ok.
RevealStep == last'.op = "reveal_play" /\ game' # game

\* The slot whose reveal the step stored, and the action it revealed: the
\* card that left the hand, or the sentinel when none did.
RevealedSlot ==
    IF game.trick_state = TRICK_REVEAL_WAIT_BOTH
    THEN (IF game'.trick_state = TRICK_REVEAL_WAIT_P2 THEN PLAYER_1 ELSE PLAYER_2)
    ELSE (IF game.trick_state = TRICK_REVEAL_WAIT_P1 THEN PLAYER_1 ELSE PLAYER_2)

RevealedAction ==
    LET gone == SeqToSet(get_hand(game, RevealedSlot))
                    \ SeqToSet(get_hand(game', RevealedSlot))
    IN IF gone = {} THEN CANNOT_FOLLOW_SENTINEL ELSE CHOOSE c \in gone : TRUE

\* C4: commit binding.  reveal_play returns Ok only for an (action, salt)
\* that opens the slot's commit under the algorithm its zk flag selects; an
\* opening that does not is rejected with PlayRevealMismatch (legacy) or
\* ZkPlayOpeningMismatch (ZK) and changes nothing; and the action a reveal
\* step stores is the one the commit was made to.
CommitBinding ==
    /\ [](Playing =>
            \A player \in {game.player1, game.player2},
               action \in AnyCards \cup {SumSeq(game.hand1), SumSeq(game.hand2)},
               salt \in Salts :
                LET slot == resolve_slot(game, player)
                    r == reveal_play(SessionId, player, action, salt)
                IN /\ r.res = "Ok" => Opens(game, slot, action, salt)
                   /\ (require_reveal_phase(game, slot) /\ IsSome(SlotCommit(game, slot))
                          /\ ~Opens(game, slot, action, salt))
                      => /\ r.res = (IF SlotZk(game, slot) THEN "ZkPlayOpeningMismatch"
                                     ELSE "PlayRevealMismatch")
                         /\ r.g = game /\ r.hub_end = hub_end /\ r.history = history
                   /\ r.res \in {"PlayRevealMismatch", "ZkPlayOpeningMismatch"}
                      => ~Opens(game, slot, action, salt))
    /\ [][RevealStep =>
            \E salt \in Salts : Opens(game, RevealedSlot, RevealedAction, salt)]_vars

\* A ZK commit is waiting to be opened: the committed card with the right
\* blinding is accepted, with another blinding it is an opening mismatch.
CommitBindingWitness ==
    /\ Playing
    /\ game.zk_play1
    /\ last.op = "reveal_play"
    /\ \E action \in AnyCards :
        /\ reveal_play(SessionId, game.player1, action, GoodSalt).res = "Ok"
        /\ reveal_play(SessionId, game.player1, action, OtherSalt).res
               = "ZkPlayOpeningMismatch"

CommitStates == {TRICK_COMMIT_WAIT_BOTH, TRICK_COMMIT_WAIT_P1, TRICK_COMMIT_WAIT_P2}
RevealStates == {TRICK_REVEAL_WAIT_BOTH, TRICK_REVEAL_WAIT_P1, TRICK_REVEAL_WAIT_P2}

\* The steps of the trick sub-state machine; a resolved trick opens the next
\* one (CommitWaitBoth) or ends the game (None).
TrickOrder ==
    {<<TRICK_COMMIT_WAIT_BOTH, TRICK_COMMIT_WAIT_P1>>,
     <<TRICK_COMMIT_WAIT_BOTH, TRICK_COMMIT_WAIT_P2>>,
     <<TRICK_COMMIT_WAIT_P1, TRICK_REVEAL_WAIT_BOTH>>,
     <<TRICK_COMMIT_WAIT_P2, TRICK_REVEAL_WAIT_BOTH>>,
     <<TRICK_REVEAL_WAIT_BOTH, TRICK_REVEAL_WAIT_P1>>,
     <<TRICK_REVEAL_WAIT_BOTH, TRICK_REVEAL_WAIT_P2>>,
     <<TRICK_REVEAL_WAIT_P1, TRICK_COMMIT_WAIT_BOTH>>,
     <<TRICK_REVEAL_WAIT_P2, TRICK_COMMIT_WAIT_BOTH>>,
     <<TRICK_REVEAL_WAIT_P1, TRICK_NONE>>,
     <<TRICK_REVEAL_WAIT_P2, TRICK_NONE>>}

\* The player of a slot, and the slot a trick sub-state is not waiting for
\* (0 when it waits for both).
PlayerOf(g, slot) == IF slot = PLAYER_1 THEN g.player1 ELSE g.player2
NotAwaited(g) ==
    CASE g.trick_state \in {TRICK_COMMIT_WAIT_P1, TRICK_REVEAL_WAIT_P1} -> PLAYER_2
      [] g.trick_state \in {TRICK_COMMIT_WAIT_P2, TRICK_REVEAL_WAIT_P2} -> PLAYER_1
      [] OTHER -> 0

\* Every commit call of the player is rejected, whatever its arguments.
CommitsRejected(player) ==
    \A n \in Nonces(game), c \in AnyCards, salt \in Salts :
        /\ commit_play(SessionId, player, KeccakPlay(c, salt), n).res # "Ok"
        /\ commit_play_zk(SessionId, player, KeccakPoint(pedersen_commit(c, salt)), n,
                          RingProof(c, salt, <<c>>, SessionId, player)).res # "Ok"
        /\ LET hand == get_hand(game, resolve_slot(game, player))
               suit == IF IsSome(game.trick_suit) THEN Unwrap(game.trick_suit) ELSE 0
           IN commit_cangkul_zk(SessionId, player,
                                KeccakPoint(pedersen_commit(SumSeq(hand), salt)), n,
                                CangkulProof(hand, salt, suit, SessionId, player)).res # "Ok"

\* Every reveal call of the player is rejected with NotYourTurn.
RevealsNotYourTurn(player) ==
    \A c \in AnyCards, salt \in Salts :
        LET r == reveal_play(SessionId, player, c, salt)
        IN r.res = "NotYourTurn" /\ r.g = game

\* C5: commit-before-reveal ordering.  Within Playing trick_state moves only
\* along CommitWaitBoth -> CommitWaitP1|P2 -> RevealWaitBoth -> RevealWaitP1|P2
\* -> resolved; reveal_play is NotYourTurn until both have committed; a commit
\* is rejected once reveals began; the player who is not awaited is rejected;
\* and a revealed card is never on the table with a commit outstanding.
CommitBeforeReveal ==
    /\ [](Playing =>
            /\ game.trick_state \in CommitStates \cup RevealStates
            /\ game.trick_state \in CommitStates =>
                /\ \A slot \in {PLAYER_1, PLAYER_2} :
                        RevealsNotYourTurn(PlayerOf(game, slot))
                /\ IsNone(game.trick_card1) /\ IsNone(game.trick_card2)
            /\ game.trick_state \in RevealStates =>
                /\ \A slot \in {PLAYER_1, PLAYER_2} :
                        CommitsRejected(PlayerOf(game, slot))
                /\ IsSome(game.play_commit1) /\ IsSome(game.play_commit2)
            /\ (NotAwaited(game) # 0 /\ game.trick_state \in CommitStates)
                => CommitsRejected(PlayerOf(game, NotAwaited(game)))
            /\ (NotAwaited(game) # 0 /\ game.trick_state \in RevealStates)
                => RevealsNotYourTurn(PlayerOf(game, NotAwaited(game))))
    /\ [][(Playing /\ game'.trick_state # game.trick_state)
            => <<game.trick_state, game'.trick_state>> \in TrickOrder]_vars

\* Player 2 has committed and player 1 has not: player 2 is not awaited.
CommitBeforeRevealWitness ==
    /\ Playing
    /\ game.trick_state = TRICK_COMMIT_WAIT_P1
    /\ game.tricks_won1 + game.tricks_won2 > 0
    /\ last.op = "commit_play_zk"

\* C6: hub reporting.  The hub receives exactly one start_game for a session,
\* at most one end_game, and exactly one end_game once the session is
\* Finished, whichever path finished it.
HubExactlyOnce ==
    /\ stored <=> hub_start = 1
    /\ hub_start <= 1
    /\ Len(hub_end) <= 1
    /\ Finished => Len(hub_end) = 1
    /\ (stored /\ ~Finished) => Len(hub_end) = 0

\* A session that ended by forfeit after a tick and play, reported once.
HubExactlyOnceWitness ==
    /\ Finished
    /\ last.op = "forfeit"
    /\ game.tricks_won1 + game.tricks_won2 > 0
    /\ Len(hub_end) = 1
    /\ hub_start = 1

\* A step in which resolve_timeout returned Ok.
ResolveStep == last'.op = "resolve_timeout" /\ game' # game

\* The outcome the timeout rules give a session, by phase (0: none stated).
TimeoutRule(g) ==
    IF g.lifecycle_state = STATE_SEED_COMMIT
    THEN (IF IsSome(g.seed_commit1) /\ IsNone(g.seed_commit2) THEN OUTCOME_PLAYER1_WIN
          ELSE IF IsSome(g.seed_commit2) /\ IsNone(g.seed_commit1) THEN OUTCOME_PLAYER2_WIN
          ELSE 0)
    ELSE IF g.lifecycle_state = STATE_SEED_REVEAL
    THEN (IF g.seed_revealed1 /\ ~g.seed_revealed2 THEN OUTCOME_PLAYER1_WIN
          ELSE IF g.seed_revealed2 /\ ~g.seed_revealed1 THEN OUTCOME_PLAYER2_WIN
          ELSE IF ~g.seed_revealed1 /\ ~g.seed_revealed2 THEN OUTCOME_DRAW
          ELSE 0)
    ELSE IF g.lifecycle_state = STATE_PLAYING
    THEN (IF NotAwaited(g) = PLAYER_1 THEN OUTCOME_PLAYER1_WIN
          ELSE IF NotAwaited(g) = PLAYER_2 THEN OUTCOME_PLAYER2_WIN
          ELSE IF g.trick_state \in {TRICK_COMMIT_WAIT_BOTH, TRICK_REVEAL_WAIT_BOTH}
          THEN determine_winner(g)
          ELSE 0)
    ELSE 0

\* C7: timeout outcome by phase.  A successful resolve_timeout finishes the
\* session; in SeedCommit the only committer wins; in SeedReveal the only
\* revealer wins and it is a Draw if neither revealed; in Playing the player
\* who is not awaited wins, and when both are awaited the outcome is the one
\* of the winner-determination rules on the current hands and counters.
TimeoutOutcomeByPhase ==
    [][ResolveStep =>
            /\ game'.lifecycle_state = STATE_FINISHED
            /\ game'.outcome = TimeoutRule(game)
            /\ game'.outcome \in {OUTCOME_PLAYER1_WIN, OUTCOME_PLAYER2_WIN, OUTCOME_DRAW}]_vars

\* Player 2 revealed, player 1 did not, and the timeout gave player 2 the game.
TimeoutOutcomeByPhaseWitness ==
    /\ Finished
    /\ last.op = "resolve_timeout"
    /\ game.trick_state = TRICK_REVEAL_WAIT_P1
    /\ game.outcome = OUTCOME_PLAYER2_WIN

Armed == IsSome(game.deadline_nonce)
Reached ==
    \/ game.action_nonce >= Unwrap(game.deadline_nonce)
    \/ IsSome(game.deadline_ledger) /\ ledger >= Unwrap(game.deadline_ledger)

\* C8: resolve_timeout succeeds only with an armed deadline of which the
\* nonce bound or the ledger bound is reached; with no deadline armed it
\* returns TimeoutNotConfigured, with neither bound reached TimeoutNotReached,
\* and in both cases the session is unchanged and the hub is not called.
ResolveTimeoutGuard ==
    stored =>
        \A caller \in Addresses :
            LET r == resolve_timeout(SessionId, caller)
                player == ~Finished /\ caller \in {game.player1, game.player2}
            IN /\ r.res = "Ok" => (Armed /\ Reached)
               /\ (player /\ ~Armed) => r.res = "TimeoutNotConfigured"
               /\ (player /\ Armed /\ ~Reached) => r.res = "TimeoutNotReached"
               /\ r.res = "TimeoutNotConfigured" => ~Armed
               /\ r.res = "TimeoutNotReached" => (Armed /\ ~Reached)
               /\ r.res \in {"TimeoutNotConfigured", "TimeoutNotReached"}
                  => Rejected(r)

\* Sixty ledgers into an armed deadline, with one tick counted, neither
\* bound is reached yet.
ResolveTimeoutGuardWitness ==
    /\ stored /\ ~Finished /\ Armed
    /\ ledger > InitialLedger
    /\ last.op = "tick_timeout"
    /\ resolve_timeout(SessionId, game.player1).res = "TimeoutNotReached"

\* A step in which tick_timeout returned Ok.
TickStep == last'.op = "tick_timeout" /\ game' # game

\* C9: tick rate limit.  last_tick_ledger is the ledger of the last
\* successful tick; a successful tick comes at least MIN_TICK_GAP_LEDGERS
\* after it; a tick issued sooner returns TickTooSoon and changes neither
\* action_nonce nor last_tick_ledger.
TickRateLimit ==
    /\ [](stored /\ ~Finished =>
            \A caller \in {game.player1, game.player2} :
                LET r == tick_timeout(SessionId, caller)
                IN ledger < game.last_tick_ledger + MIN_TICK_GAP_LEDGERS
                   => /\ r.res = "TickTooSoon"
                      /\ r.g.action_nonce = game.action_nonce
                      /\ r.g.last_tick_ledger = game.last_tick_ledger)
    /\ [][/\ TickStep =>
                /\ ledger >= game.last_tick_ledger + MIN_TICK_GAP_LEDGERS
                /\ game'.last_tick_ledger = ledger
          /\ (stored /\ ~TickStep) => game'.last_tick_ledger = game.last_tick_ledger]_vars

\* A second tick, sixty ledgers after the first, and a third one refused.
TickRateLimitWitness ==
    /\ stored /\ ~Finished
    /\ last.op = "tick_timeout"
    /\ game.last_tick_ledger = InitialLedger + MIN_TICK_GAP_LEDGERS
    /\ game.action_nonce >= 3
    /\ tick_timeout(SessionId, game.player2).res = "TickTooSoon"

BumpingOps ==
    {"commit_seed", "reveal_seed", "commit_play", "commit_play_zk", "commit_cangkul_zk",
     "reveal_play", "tick_timeout"}
FinalizingOps == {"resolve_timeout", "forfeit"}

\* A step of an existing session in which a call of one of the operations
\* returned Ok and changed the session.
MutatingStep(ops) == stored /\ game' # game /\ last'.op \in ops

\* C10 as stated: action_nonce increases by exactly one on every successful
\* mutating call (commit_seed, reveal_seed, commit_play, commit_play_zk,
\* commit_cangkul_zk, reveal_play, tick_timeout, resolve_timeout, forfeit)
\* and never decreases.
NonceBumpsOnEveryCall ==
    [][/\ MutatingStep(BumpingOps \cup FinalizingOps)
            => game'.action_nonce = game.action_nonce + 1
       /\ stored => game'.action_nonce >= game.action_nonce]_vars

\* C10: action_nonce increases by exactly one on every successful
\* commit_seed, reveal_seed, commit_play, commit_play_zk, commit_cangkul_zk,
\* reveal_play and tick_timeout; a successful resolve_timeout or forfeit
\* leaves it as it is; and it never decreases.
NonceBumps ==
    [][/\ MutatingStep(BumpingOps) => game'.action_nonce = game.action_nonce + 1
       /\ MutatingStep(FinalizingOps) => game'.action_nonce = game.action_nonce
       /\ stored => game'.action_nonce >= game.action_nonce]_vars

\* A session that counted a tick and was then forfeited.
NonceBumpsWitness ==
    /\ Finished
    /\ last.op = "forfeit"
    /\ game.last_tick_ledger > 0
    /\ game.action_nonce >= 3

\* The three commit calls of a player for an action, a salt and a nonce: the
\* legacy commit, the ring-proof commit over the cards that follow suit, and
\* the cannot-follow commit over the whole hand.
CommitCalls(player, c, salt, n) ==
    LET slot == resolve_slot(game, player)
        hand == get_hand(game, slot)
        suit == IF IsSome(game.trick_suit) THEN Unwrap(game.trick_suit) ELSE 0
    IN { commit_play(SessionId, player, KeccakPlay(c, salt), n),
         commit_play_zk(SessionId, player, KeccakPoint(pedersen_commit(c, salt)), n,
                        RingProof(c, salt, ValidSet(hand, suit), SessionId, player)),
         commit_cangkul_zk(SessionId, player,
                           KeccakPoint(pedersen_commit(SumSeq(hand), salt)), n,
                           CangkulProof(hand, salt, suit, SessionId, player)) }

\* Every play commit made with nonce n is refused as InvalidNonce, whoever
\* makes it, and changes nothing.
InvalidNonceFor(n) ==
    \A player \in Addresses, c \in AnyCards, salt \in Salts :
        \A r \in CommitCalls(player, c, salt, n) :
            r.res = "InvalidNonce" /\ Rejected(r)

\* The values action_nonce takes in the model.
NonceRange == 0..(2 * MaxNonce + DECK_SIZE)

\* A step in which one of the three commit calls returned Ok.
CommitStep ==
    /\ last'.op \in {"commit_play", "commit_play_zk", "commit_cangkul_zk"}
    /\ game' # game

\* C11: stale-state guard.  In Playing a play commit whose expected_nonce is
\* not the current action_nonce returns InvalidNonce and changes nothing;
\* and once a commit prepared against a nonce value is accepted, every other
\* commit prepared against that value is refused.
StaleNonceRejected ==
    /\ [](Playing =>
            \A n \in {game.action_nonce + 1, game.action_nonce + 2}
                        \cup {m \in {game.action_nonce - 1} : m >= 0} :
                InvalidNonceFor(n))
    /\ [][CommitStep =>
            \A n \in {m \in NonceRange : m = game.action_nonce} :
                InvalidNonceFor(n)']_vars

\* Player 1 has committed; player 2, who is awaited, is refused with the
\* nonce player 1 used and accepted with the current one.
StaleNonceRejectedWitness ==
    /\ Playing
    /\ game.trick_state = TRICK_COMMIT_WAIT_P2
    /\ last.op = "commit_play"
    /\ \E c \in CandidateCards(game, PLAYER_2) :
        /\ commit_play(SessionId, game.player2, KeccakPlay(c, GoodSalt),
                       game.action_nonce - 1).res = "InvalidNonce"
        /\ commit_play(SessionId, game.player2, KeccakPlay(c, GoodSalt),
                       game.action_nonce).res = "Ok"

\* A step in which some call on the stored session was accepted and changed it.
AcceptedStep == stored /\ game' # game

\* C12 as stated: of two mutating transactions (commit_seed, reveal_seed,
\* commit_play*, reveal_play, tick_timeout, resolve_timeout, forfeit, by
\* either player) prepared against the same snapshot, the second is always
\* rejected once the first has been accepted.
RacingSecondRejected ==
    [][AcceptedStep =>
        \A player \in {game.player1, game.player2} :
            /\ \A h \in SeedCommits(player) :
                    (commit_seed(SessionId, player, h).res = "Ok")
                    => (commit_seed(SessionId, player, h).res # "Ok")'
            /\ \A sh \in SeedHashes, proof \in SeedProofs(player) :
                    (reveal_seed(SessionId, player, sh, proof).res = "Ok")
                    => (reveal_seed(SessionId, player, sh, proof).res # "Ok")'
            /\ \A c \in AnyCards, salt \in Salts :
                    (reveal_play(SessionId, player, c, salt).res = "Ok")
                    => (reveal_play(SessionId, player, c, salt).res # "Ok")'
            /\ \A c \in AnyCards, salt \in Salts,
                  n \in {m \in NonceRange : m = game.action_nonce} :
                    (\E r \in CommitCalls(player, c, salt, n) : r.res = "Ok")
                    => (\A r \in CommitCalls(player, c, salt, n) : r.res # "Ok")'
            /\ (tick_timeout(SessionId, player).res = "Ok")
                    => (tick_timeout(SessionId, player).res # "Ok")'
            /\ (resolve_timeout(SessionId, player).res = "Ok")
                    => (resolve_timeout(SessionId, player).res # "Ok")'
            /\ (forfeit(SessionId, player).res = "Ok")
                    => (forfeit(SessionId, player).res # "Ok")']_vars

\* C12: of two transactions prepared against the same snapshot, a play
\* commit (commit_play, commit_play_zk, commit_cangkul_zk) that comes second
\* is always rejected, and changes nothing, once the first has been accepted,
\* whichever operation the first was and whoever made it.
RacingCommitRejected ==
    [][AcceptedStep =>
        \A player \in Addresses, c \in AnyCards, salt \in Salts,
           n \in {m \in NonceRange : m = game.action_nonce} :
            (\A r \in CommitCalls(player, c, salt, n) :
                r.res \in {"InvalidNonce", "WrongPhase"} /\ Rejected(r))']_vars

\* A tick was accepted while both players were preparing their commits: a
\* commit carrying the nonce of the snapshot is now refused.
RacingCommitRejectedWitness ==
    /\ Playing
    /\ game.trick_state = TRICK_COMMIT_WAIT_BOTH
    /\ last.op = "tick_timeout"
    /\ \E c \in CandidateCards(game, PLAYER_1) :
        /\ commit_play(SessionId, game.player1, KeccakPlay(c, GoodSalt),
                       game.action_nonce - 1).res = "InvalidNonce"
        /\ commit_play(SessionId, game.player1, KeccakPlay(c, GoodSalt),
                       game.action_nonce).res = "Ok"

BothCommitted(g) == IsSome(g.seed_commit1) /\ IsSome(g.seed_commit2)
BothRevealed(g) ==
    /\ g.seed_revealed1 /\ g.seed_revealed2
    /\ IsSome(g.seed_hash1) /\ IsSome(g.seed_hash2)

\* C13: lifecycle order.  lifecycle_state only moves forward: from
\* SeedCommit to SeedReveal exactly at the commit_seed that makes both seed
\* commits present, from SeedReveal to Playing exactly at the reveal_seed
\* that makes both slots revealed with both seed hashes stored, and to
\* Finished only through reveal_play (trick resolution), resolve_timeout or
\* forfeit; a session is never Playing without both commits and both reveals.
LifecycleOrder ==
    /\ [](stored =>
            /\ game.lifecycle_state \in {STATE_SEED_COMMIT, STATE_SEED_REVEAL,
                                         STATE_PLAYING, STATE_FINISHED}
            /\ game.lifecycle_state = STATE_SEED_COMMIT => ~BothCommitted(game)
            /\ game.lifecycle_state = STATE_SEED_REVEAL
                    => (BothCommitted(game) /\ ~(game.seed_revealed1 /\ game.seed_revealed2))
            /\ Playing => (BothCommitted(game) /\ BothRevealed(game)))
    /\ [][stored =>
            /\ game'.lifecycle_state >= game.lifecycle_state
            /\ game.lifecycle_state = STATE_SEED_COMMIT =>
                    ((game'.lifecycle_state = STATE_SEED_REVEAL)
                     <=> (last'.op = "commit_seed" /\ game' # game /\ BothCommitted(game')))
            /\ game.lifecycle_state = STATE_SEED_REVEAL =>
                    ((game'.lifecycle_state = STATE_PLAYING)
                     <=> (last'.op = "reveal_seed" /\ game' # game /\ BothRevealed(game')))
            /\ (game.lifecycle_state = STATE_SEED_COMMIT)
                    => game'.lifecycle_state # STATE_PLAYING
            /\ (game'.lifecycle_state = STATE_FINISHED /\ ~Finished)
                    => (game' # game
                        /\ last'.op \in {"reveal_play", "resolve_timeout", "forfeit"})]_vars

\* A game that went through all four phases and ended by trick resolution.
LifecycleOrderWitness ==
    /\ Finished
    /\ last.op = "reveal_play"
    /\ BothCommitted(game) /\ BothRevealed(game)
    /\ game.tricks_won1 + game.tricks_won2 > 0

\* The reveal has passed the checks that come before the legality of the
\* action: the slot is awaited for a reveal and (action, salt) opens its commit.
OpeningAccepted(slot, action, salt) ==
    /\ require_reveal_phase(game, slot)
    /\ Opens(game, slot, action, salt)

\* The hand without the card.
Without(hand, card) == SelectSeq(hand, LAMBDA x : x # card)

\* The reveal is the second of its trick, which it resolves.
SecondReveal(slot) ==
    \/ slot = PLAYER_1 /\ game.trick_state = TRICK_REVEAL_WAIT_P1
    \/ slot = PLAYER_2 /\ game.trick_state = TRICK_REVEAL_WAIT_P2

\* C14: card reveal legality.  reveal_play with a card id succeeds only if
\* id < 36 (else InvalidCardId), the card is in the revealer's hand (else
\* CardNotInHand) and its suit is trick_suit (else WrongSuit); the errors
\* change nothing; on success exactly that card leaves the revealer's hand
\* and is that slot's trick card, which a resolution in the same call then
\* removes with the trick.
CardRevealLegality ==
    Playing =>
        \A slot \in {PLAYER_1, PLAYER_2}, c \in AnyCards \ {CANNOT_FOLLOW_SENTINEL},
           salt \in Salts :
            LET r == reveal_play(SessionId, PlayerOf(game, slot), c, salt)
                hand == get_hand(game, slot)
                other == get_hand(game, 3 - slot)
                in_hand == c \in SeqToSet(hand)
                on_suit == IsSome(game.trick_suit) /\ c \div CARDS_PER_SUIT = Unwrap(game.trick_suit)
                passed == OpeningAccepted(slot, c, salt)
            IN /\ r.res = "Ok" => (passed /\ c < DECK_SIZE /\ in_hand /\ on_suit)
               /\ (passed /\ c >= DECK_SIZE) => r.res = "InvalidCardId"
               /\ (passed /\ c < DECK_SIZE /\ ~in_hand) => r.res = "CardNotInHand"
               /\ (passed /\ in_hand /\ ~on_suit) => r.res = "WrongSuit"
               /\ r.res \in {"InvalidCardId", "CardNotInHand", "WrongSuit"} => Rejected(r)
               /\ (r.res = "Ok" /\ ~SecondReveal(slot)) =>
                    /\ get_hand(r.g, slot) = Without(hand, c)
                    /\ Len(get_hand(r.g, slot)) = Len(hand) - 1
                    /\ (IF slot = PLAYER_1 THEN r.g.trick_card1 ELSE r.g.trick_card2) = Some(c)
                    /\ (IF slot = PLAYER_1 THEN r.g.trick_card2 ELSE r.g.trick_card1)
                         = (IF slot = PLAYER_1 THEN game.trick_card2 ELSE game.trick_card1)
                    /\ get_hand(r.g, 3 - slot) = other
                    /\ r.g.draw_pile = game.draw_pile
                    /\ r.cleared = << >>
               /\ (r.res = "Ok" /\ SecondReveal(slot)) =>
                    /\ SubSeq(get_hand(r.g, slot), 1, Len(hand) - 1) = Without(hand, c)
                    /\ Len(get_hand(r.g, slot)) \in {Len(hand) - 1, Len(hand)}
                    /\ c \in SeqToSet(r.cleared)
                    /\ IsNone(r.g.trick_card1) /\ IsNone(r.g.trick_card2)

\* Player 2 has revealed a card; player 1 committed to a card of another
\* suit and is refused when opening it.
CardRevealLegalityWitness ==
    /\ Playing
    /\ last.op = "reveal_play"
    /\ IsSome(game.trick_card2)
    /\ Len(game.hand2) = HAND_SIZE - 1
    /\ \E c \in SeqToSet(game.hand1) :
            reveal_play(SessionId, game.player1, c, GoodSalt).res = "WrongSuit"

SlotTrickCard(g, slot) == IF slot = PLAYER_1 THEN g.trick_card1 ELSE g.trick_card2
HoldsTrickSuit(slot) ==
    /\ IsSome(game.trick_suit)
    /\ \E i \in 1..Len(get_hand(game, slot)) :
            get_hand(game, slot)[i] \div CARDS_PER_SUIT = Unwrap(game.trick_suit)

\* What C15 says of the sentinel whenever it is accepted or refused for the
\* suit, apart from the hand after the call.
CannotFollowChecked(slot, salt) ==
    LET r == reveal_play(SessionId, PlayerOf(game, slot), CANNOT_FOLLOW_SENTINEL, salt)
    IN /\ r.res = "Ok" => (OpeningAccepted(slot, CANNOT_FOLLOW_SENTINEL, salt)
                            /\ ~HoldsTrickSuit(slot))
       /\ (OpeningAccepted(slot, CANNOT_FOLLOW_SENTINEL, salt) /\ HoldsTrickSuit(slot))
            => (r.res = "HasMatchingSuit" /\ Rejected(r))
       /\ r.res = "HasMatchingSuit" => (HoldsTrickSuit(slot) /\ Rejected(r))
       /\ r.res = "Ok" => IsNone(SlotTrickCard(r.g, slot))

\* C15 as stated: reveal_play with the sentinel succeeds only if the hand
\* has no card of trick_suit, otherwise it returns HasMatchingSuit and
\* changes nothing; on success the revealer's hand is unchanged and their
\* trick card stays None.
CannotFollowHandUnchanged ==
    Playing =>
        \A slot \in {PLAYER_1, PLAYER_2}, salt \in Salts :
            LET r == reveal_play(SessionId, PlayerOf(game, slot), CANNOT_FOLLOW_SENTINEL, salt)
            IN /\ CannotFollowChecked(slot, salt)
               /\ r.res = "Ok" => get_hand(r.g, slot) = get_hand(game, slot)

\* C15: as above, with the hand unchanged by the reveal itself: when the
\* call is the second reveal of the trick and the other player played a
\* card, the resolution it triggers appends the head of the draw pile, if
\* there is one, to the revealer's hand.
CannotFollowHonesty ==
    Playing =>
        \A slot \in {PLAYER_1, PLAYER_2}, salt \in Salts :
            LET r == reveal_play(SessionId, PlayerOf(game, slot), CANNOT_FOLLOW_SENTINEL, salt)
                penalty == /\ SecondReveal(slot)
                           /\ IsSome(SlotTrickCard(game, 3 - slot))
                           /\ game.draw_pile # << >>
            IN /\ CannotFollowChecked(slot, salt)
               /\ (r.res = "Ok" /\ ~penalty) => get_hand(r.g, slot) = get_hand(game, slot)
               /\ (r.res = "Ok" /\ penalty)
                    => get_hand(r.g, slot) = Append(get_hand(game, slot), Head(game.draw_pile))

\* Player 1 played a card, player 2 revealed the sentinel second and holds
\* the penalty card.
CannotFollowHonestyWitness ==
    /\ Playing
    /\ last.op = "reveal_play"
    /\ last.caller = game.player2
    /\ Len(game.hand2) = HAND_SIZE + 1
    /\ Len(game.hand1) = HAND_SIZE - 1
    /\ game.tricks_won1 = 1

\* A step in which the second reveal of a trick was accepted: the trick is
\* resolved in the same call.
TrickResolvedStep ==
    RevealStep /\ game.trick_state \in {TRICK_REVEAL_WAIT_P1, TRICK_REVEAL_WAIT_P2}

\* The action of a slot in the trick the step resolves: its trick card if it
\* revealed first, else what it reveals in the step.
TrickAction(slot) ==
    IF slot = RevealedSlot THEN RevealedAction
    ELSE IF IsSome(SlotTrickCard(game, slot)) THEN Unwrap(SlotTrickCard(game, slot))
    ELSE CANNOT_FOLLOW_SENTINEL

Played(slot) == TrickAction(slot) # CANNOT_FOLLOW_SENTINEL

\* The hand of the slot before the trick's reveals took its card out.
HandLess(slot) == Without(get_hand(game, slot), TrickAction(slot))

\* The hand of the slot with the head of the draw pile, if any, appended.
WithPenalty(slot) ==
    IF game.draw_pile = << >> THEN HandLess(slot)
    ELSE Append(HandLess(slot), Head(game.draw_pile))

\* Pairs of cards of equal value, as no trick of one suit can hold them.
TiedPairs == { <<a, b>> \in (0..17) \X (0..17) : a # b /\ a % CARDS_PER_SUIT = b % CARDS_PER_SUIT }

\* C16: trick resolution.  When the second reveal of a trick is accepted:
\* (a) if both played a card the strictly higher value gets exactly one
\* trick, player 1 on equal values; (b) if exactly one played, that player
\* gets exactly one trick and the other receives the head of the draw pile
\* if there is one; (c) if neither played, no counter and no hand changes.
\* tricks_won1 + tricks_won2 grows by at most one.
TrickResolution ==
    /\ [][TrickResolvedStep =>
            LET v1 == TrickAction(PLAYER_1) % CARDS_PER_SUIT
                v2 == TrickAction(PLAYER_2) % CARDS_PER_SUIT
                won1 == game'.tricks_won1 - game.tricks_won1
                won2 == game'.tricks_won2 - game.tricks_won2
            IN /\ won1 \in {0, 1} /\ won2 \in {0, 1} /\ won1 + won2 <= 1
               /\ (Played(PLAYER_1) /\ Played(PLAYER_2)) =>
                    /\ won1 = (IF v1 >= v2 THEN 1 ELSE 0)
                    /\ won2 = (IF v2 > v1 THEN 1 ELSE 0)
                    /\ game'.hand1 = HandLess(PLAYER_1)
                    /\ game'.hand2 = HandLess(PLAYER_2)
               /\ (Played(PLAYER_1) /\ ~Played(PLAYER_2)) =>
                    /\ won1 = 1 /\ won2 = 0
                    /\ game'.hand1 = HandLess(PLAYER_1)
                    /\ game'.hand2 = WithPenalty(PLAYER_2)
               /\ (~Played(PLAYER_1) /\ Played(PLAYER_2)) =>
                    /\ won1 = 0 /\ won2 = 1
                    /\ game'.hand2 = HandLess(PLAYER_2)
                    /\ game'.hand1 = WithPenalty(PLAYER_1)
               /\ (~Played(PLAYER_1) /\ ~Played(PLAYER_2)) =>
                    /\ won1 = 0 /\ won2 = 0
                    /\ game'.hand1 = game.hand1 /\ game'.hand2 = game.hand2]_vars
    /\ [][(stored /\ ~TrickResolvedStep) =>
            (game'.tricks_won1 = game.tricks_won1 /\ game'.tricks_won2 = game.tricks_won2)]_vars
    /\ [](Playing =>
            \A pair \in TiedPairs :
                LET g == [game EXCEPT !.trick_card1 = Some(pair[1]),
                                      !.trick_card2 = Some(pair[2])]
                    r == resolve_trick(SessionId, g)
                IN /\ r.g.tricks_won1 = game.tricks_won1 + 1
                   /\ r.g.tricks_won2 = game.tricks_won2)

\* Both players have won tricks and penalty cards have refilled the hands.
TrickResolutionWitness ==
    /\ Playing
    /\ last.op = "reveal_play"
    /\ game.trick_state = TRICK_COMMIT_WAIT_BOTH
    /\ game.tricks_won1 > 0 /\ game.tricks_won2 > 0
    /\ Len(game.hand1) + Len(game.hand2) >= 2 * HAND_SIZE

\* The draw pile of the resolved trick after its penalty draw, if it had one.
PileAfterPenalty ==
    IF Played(PLAYER_1) # Played(PLAYER_2) /\ game.draw_pile # << >>
    THEN Tail(game.draw_pile)
    ELSE game.draw_pile

\* C17: after a trick resolves the session is Finished if and only if a
\* hand is empty or the draw pile is empty, taken after the penalty draw;
\* otherwise the head of the pile becomes the flipped card, trick cards,
\* play commits and zk flags are cleared, trick_state is CommitWaitBoth and
\* the deadline is re-armed.
AfterTrick ==
    [][TrickResolvedStep =>
        /\ game'.lifecycle_state \in {STATE_PLAYING, STATE_FINISHED}
        /\ (game'.lifecycle_state = STATE_FINISHED)
            <=> (game'.hand1 = << >> \/ game'.hand2 = << >> \/ PileAfterPenalty = << >>)
        /\ game'.lifecycle_state = STATE_FINISHED
            => game'.draw_pile = PileAfterPenalty
        /\ game'.lifecycle_state = STATE_PLAYING =>
            /\ game'.flipped_card = Some(Head(PileAfterPenalty))
            /\ game'.trick_suit = Some(Head(PileAfterPenalty) \div CARDS_PER_SUIT)
            /\ game'.draw_pile = Tail(PileAfterPenalty)
            /\ IsNone(game'.trick_card1) /\ IsNone(game'.trick_card2)
            /\ IsNone(game'.play_commit1) /\ IsNone(game'.play_commit2)
            /\ ~game'.zk_play1 /\ ~game'.zk_play2
            /\ game'.trick_state = TRICK_COMMIT_WAIT_BOTH
            /\ game'.deadline_nonce = Some(game'.action_nonce + TIMEOUT_ACTIONS)
            /\ game'.deadline_ledger = Some(ledger + TIMEOUT_LEDGERS)]_vars

\* A game that ended at a trick resolution because the draw pile ran out,
\* both players still holding cards.
AfterTrickWitness ==
    /\ Finished
    /\ last.op = "reveal_play"
    /\ game.draw_pile = << >>
    /\ game.hand1 # << >> /\ game.hand2 # << >>

\* The sum of (card mod 9) + 2 over a hand.
RECURSIVE HandValue(_)
HandValue(h) == IF h = << >> THEN 0 ELSE (Head(h) % 9) + 2 + HandValue(Tail(h))

\* The first of the criteria that tells the players apart decides: p1 holds
\* if it favours player 1.
Decide(differs, p1) ==
    IF ~differs THEN 0 ELSE IF p1 THEN OUTCOME_PLAYER1_WIN ELSE OUTCOME_PLAYER2_WIN

\* The lexicographic rule of C18.
LexWinner(g) ==
    LET byEmpty == Decide((g.hand1 = << >>) # (g.hand2 = << >>), g.hand1 = << >>)
        byTricks == Decide(g.tricks_won1 # g.tricks_won2, g.tricks_won1 > g.tricks_won2)
        byCards == Decide(Len(g.hand1) # Len(g.hand2), Len(g.hand1) < Len(g.hand2))
        byValue == Decide(HandValue(g.hand1) # HandValue(g.hand2),
                          HandValue(g.hand1) < HandValue(g.hand2))
    IN IF byEmpty # 0 THEN byEmpty
       ELSE IF byTricks # 0 THEN byTricks
       ELSE IF byCards # 0 THEN byCards
       ELSE IF byValue # 0 THEN byValue
       ELSE OUTCOME_DRAW

\* The session with the two players exchanged, and an outcome seen from the
\* other side.
SwapPlayers(g) ==
    [g EXCEPT !.hand1 = g.hand2, !.hand2 = g.hand1,
              !.tricks_won1 = g.tricks_won2, !.tricks_won2 = g.tricks_won1]
Mirror(outcome) ==
    IF outcome = OUTCOME_PLAYER1_WIN THEN OUTCOME_PLAYER2_WIN
    ELSE IF outcome = OUTCOME_PLAYER2_WIN THEN OUTCOME_PLAYER1_WIN
    ELSE outcome

\* C18: winner determination is the lexicographic rule (exactly one empty
\* hand, then more tricks, then fewer cards, then lower hand value, else
\* Draw) for all hands and trick counters, and it is symmetric under
\* swapping the two players.
WinnerIsLexicographic ==
    last.op = "determine_winner" =>
        LET before == [game EXCEPT !.outcome = OUTCOME_UNRESOLVED]
        IN /\ game.outcome = LexWinner(before)
           /\ determine_winner(SwapPlayers(before)) = Mirror(game.outcome)

\* Equal tricks and equal hand sizes: the lower hand value gave player 2 the game.
WinnerIsLexicographicWitness ==
    /\ last.op = "determine_winner"
    /\ game.tricks_won1 = game.tricks_won2
    /\ Len(game.hand1) = MaxWinnerHand /\ Len(game.hand2) = MaxWinnerHand
    /\ game.outcome = OUTCOME_PLAYER2_WIN

\* The cards dealt to the draw pile.
PileSize == DECK_SIZE - 2 * HAND_SIZE

\* The bound the tests put on the number of tricks of a game.
MaxTricks == 200

Outcomes == {OUTCOME_PLAYER1_WIN, OUTCOME_PLAYER2_WIN, OUTCOME_DRAW}

\* Every trick resolved so far has taken a card of its own from the draw pile.
TricksConsumePile ==
    stored => /\ resolved + Len(game.draw_pile) <= PileSize
              /\ resolved <= MaxTricks
              /\ Finished => game.outcome \in Outcomes

\* C19: termination.  With each awaited player eventually committing a legal
\* action and revealing it, every Playing state leads to Finished with
\* outcome P1Win, P2Win or Draw; at most 200 tricks are resolved, each
\* resolved trick having consumed at least one draw-pile card of its own.
Termination ==
    /\ []TricksConsumePile
    /\ Playing ~> Finished

\* A game that ran to its natural end over several tricks.
TerminationWitness ==
    /\ Finished
    /\ last.op = "reveal_play"
    /\ resolved >= 3
    /\ game.outcome \in Outcomes

\* The ledger has reached the ledger bound of an armed deadline.
LedgerReached ==
    /\ IsSome(game.deadline_nonce)
    /\ IsSome(game.deadline_ledger)
    /\ ledger >= Unwrap(game.deadline_ledger)

\* C20: liveness through the timeout engine.  In every non-Finished state
\* with a deadline armed and the ledger at or past deadline_ledger, a
\* resolve_timeout call by either player succeeds and finishes the session;
\* and no resolve_timeout call ever returns TimeoutNotApplicable.
StalledSessionCanBeEnded ==
    stored =>
        /\ (~Finished /\ LedgerReached) =>
               \A caller \in {game.player1, game.player2} :
                   LET r == resolve_timeout(SessionId, caller)
                   IN /\ r.res = "Ok"
                      /\ r.g.lifecycle_state = STATE_FINISHED
                      /\ r.g.outcome \in Outcomes
        /\ \A caller \in Addresses :
               resolve_timeout(SessionId, caller).res # "TimeoutNotApplicable"

\* A session stalled in play was ended by resolve_timeout once the ledger
\* had reached the deadline, the nonce still short of every nonce bound.
StalledSessionCanBeEndedWitness ==
    /\ Finished
    /\ last.op = "resolve_timeout"
    /\ game.hand1 # << >> /\ game.hand2 # << >>
    /\ ledger >= InitialLedger + TIMEOUT_LEDGERS
    /\ game.play_commit1 # None \/ game.play_commit2 # None

\* The session as forfeit leaves it: finished, the deadline cleared, the
\* outcome set, nothing else touched.
Forfeited(g, outcome) ==
    [g EXCEPT !.lifecycle_state = STATE_FINISHED, !.outcome = outcome,
              !.deadline_nonce = None, !.deadline_ledger = None]

\* C21: forfeit by one of the two players in any phase before Finished ends
\* the session at once with the opponent as winner, whatever the deadlines,
\* hands and trick counters; on a Finished session it returns
\* GameAlreadyEnded and from a non-player NotAPlayer, both without changes.
ForfeitGivesOpponentTheGame ==
    stored =>
        \A caller \in Addresses :
            LET r == forfeit(SessionId, caller)
            IN /\ (~Finished /\ caller = game.player1)
                      => r.res = "Ok" /\ r.g = Forfeited(game, OUTCOME_PLAYER2_WIN)
               /\ (~Finished /\ caller = game.player2)
                      => r.res = "Ok" /\ r.g = Forfeited(game, OUTCOME_PLAYER1_WIN)
               /\ Finished => r.res = "GameAlreadyEnded" /\ Rejected(r)
               /\ (~Finished /\ caller \notin {game.player1, game.player2})
                      => r.res = "NotAPlayer" /\ Rejected(r)

\* Player 1 forfeited before anybody committed a seed.
ForfeitGivesOpponentTheGameWitness ==
    /\ Finished
    /\ last = [op |-> "forfeit", caller |-> game.player1]
    /\ game.outcome = OUTCOME_PLAYER2_WIN
    /\ IsNone(game.seed_commit1) /\ IsNone(game.seed_commit2)

\* What the entry points that take a caller return when `player' calls them,
\* over the inputs of the model: seed commits and proofs of any address, the
\* three play commits and the reveal for any candidate card, salt and nonce,
\* tick_timeout, resolve_timeout and forfeit.
SeedCalls(player) ==
    { commit_seed(SessionId, player, ch) :
          ch \in UNION { SeedCommits(a) : a \in Addresses } }
        \cup UNION { { reveal_seed(SessionId, player, sh, pr),
                       verify_noir_seed(SessionId, player, sh, pr) } :
                     sh \in SeedHashes \cup {WeakSeedHash},
                     pr \in UNION { SeedProofs(a) : a \in Addresses }
                               \cup { NoirProof(h) : h \in SeedHashes } }
PlayCalls(player) ==
    UNION { CommitCalls(player, c, salt, n) :
                c \in AnyCards, salt \in Salts, n \in Nonces(game) }
        \cup { reveal_play(SessionId, player, c, salt) : c \in AnyCards, salt \in Salts }
TimeoutCalls(player) ==
    { tick_timeout(SessionId, player), resolve_timeout(SessionId, player),
      forfeit(SessionId, player) }
CallsBy(player) == SeedCalls(player) \cup PlayCalls(player) \cup TimeoutCalls(player)

\* NotAPlayer and the checks that come before the caller is looked up.
OutsiderErrors == {"WrongPhase", "GameAlreadyEnded", "InvalidNonce", "NotAPlayer"}

\* C22: only the two players bound at start can change a session.  Every
\* call of commit_seed, reveal_seed, verify_noir_seed, the three play
\* commits, reveal_play, tick_timeout, resolve_timeout and forfeit by an
\* address that is neither player is rejected with NotAPlayer or an earlier
\* check and leaves session, histories and hub untouched, an expired
\* deadline included.
OnlyPlayersMutate ==
    stored =>
        \A caller \in Addresses \ {game.player1, game.player2} :
            \A r \in CallsBy(caller) :
                r.res \in OutsiderErrors /\ Rejected(r)

\* A third address claims an expired timeout and is turned away.
OnlyPlayersMutateWitness ==
    /\ stored /\ ~Finished
    /\ LedgerReached
    /\ Carol \notin {game.player1, game.player2}
    /\ resolve_timeout(SessionId, Carol).res = "NotAPlayer"
    /\ resolve_timeout(SessionId, game.player1).res = "Ok"

\* C23: errors do not mutate.  Whenever an entry point returns an error, the
\* session record, the histories and the pre-verified Noir flags it would
\* leave are those before the call, no end_game reaches the hub and no
\* session is started.
ErrorsDoNotMutate ==
    /\ \A p1 \in Addresses, p2 \in Addresses :
           LET r == start_game(SessionId, p1, p2)
           IN r.res # "Ok" => Rejected(r) /\ ~r.started
    /\ \A caller \in Addresses :
           \A r \in CallsBy(caller) :
               r.res # "Ok" => Rejected(r) /\ ~r.started

\* A player opens a stored play commit with the wrong salt, Noir flags set
\* or not: the reveal is refused.
ErrorsDoNotMutateWitness ==
    /\ Playing
    /\ IsSome(game.play_commit1)
    /\ game.action_nonce > 4
    /\ \E c \in AnyCards :
           reveal_play(SessionId, game.player1, c, OtherSalt).res = "PlayRevealMismatch"

\* The first failing check of a play commit in the order session exists,
\* phase, slot, turn, expected nonce ("Ok" when all of them pass).
OrderedGuard(player, expected_nonce) ==
    IF ~stored THEN "GameNotFound"
    ELSE IF game.lifecycle_state # STATE_PLAYING THEN "WrongPhase"
    ELSE IF player \notin {game.player1, game.player2} THEN "NotAPlayer"
    ELSE IF ~require_commit_phase(game, resolve_slot(game, player)) THEN "NotYourTurn"
    ELSE IF expected_nonce # game.action_nonce THEN "InvalidNonce"
    ELSE "Ok"

\* C24: validation order.  When several checks of a play commit fail at once
\* the error is that of the earliest in the order session exists, phase,
\* slot/turn, expected nonce, domain checks: a non-player with a wrong
\* expected_nonce gets NotAPlayer, a player who is not awaited with a wrong
\* expected_nonce gets NotYourTurn.
ValidationOrder ==
    \A player \in Addresses, c \in AnyCards, n \in Nonces(game) :
        \A r \in CommitCalls(player, c, GoodSalt, n) :
            OrderedGuard(player, n) # "Ok" => r.res = OrderedGuard(player, n)

\* The seed commit and the play commit stored for a slot.
SeedCommitOf(g, slot) == IF slot = PLAYER_1 THEN g.seed_commit1 ELSE g.seed_commit2
PlayCommitOf(g, slot) == IF slot = PLAYER_1 THEN g.play_commit1 ELSE g.play_commit2

\* Every further commit of a player whose commit is stored is refused.
SecondCommitRefused ==
    \A slot \in {PLAYER_1, PLAYER_2} :
        LET player == PlayerOf(game, slot)
        IN /\ (stored /\ game.lifecycle_state = STATE_SEED_COMMIT
                      /\ IsSome(SeedCommitOf(game, slot)))
                  => \A ch \in UNION { SeedCommits(a) : a \in Addresses } :
                         LET r == commit_seed(SessionId, player, ch)
                         IN r.res = "CommitAlreadySubmitted" /\ Rejected(r)
           /\ (Playing /\ IsSome(PlayCommitOf(game, slot)))
                  => \A c \in AnyCards, salt \in Salts, n \in Nonces(game) :
                         \A r \in CommitCalls(player, c, salt, n) : Rejected(r)

\* C25: a commit cannot be replaced.  A player's second commit_seed in
\* SeedCommit returns CommitAlreadySubmitted and a second play commit in the
\* same trick is rejected, the stored commit unchanged; a stored seed commit
\* never changes and a stored play commit changes only when the trick is
\* resolved.
CommitNotReplaced ==
    /\ []SecondCommitRefused
    /\ [][\A slot \in {PLAYER_1, PLAYER_2} :
            /\ IsSome(SeedCommitOf(game, slot))
                   => SeedCommitOf(game', slot) = SeedCommitOf(game, slot)
            /\ (IsSome(PlayCommitOf(game, slot))
                    /\ PlayCommitOf(game', slot) # PlayCommitOf(game, slot))
                   => TrickResolvedStep /\ IsNone(PlayCommitOf(game', slot))]_vars

\* Player 1 has committed in a later trick and tries again while player 2
\* is awaited.
CommitNotReplacedWitness ==
    /\ Playing
    /\ resolved >= 1
    /\ game.trick_state = TRICK_COMMIT_WAIT_P2
    /\ IsSome(game.play_commit1)
    /\ commit_play(SessionId, game.player1, KeccakPlay(CANNOT_FOLLOW_SENTINEL, GoodSalt),
                   game.action_nonce).res = "NotYourTurn"

\* A step in which start_game returned Ok.
StartStep == last'.op = "start_game" /\ ~stored /\ stored'

\* C26: start_game with player1 = player2 returns SelfPlayNotAllowed, and
\* with the id of a stored session, whatever its phase, SessionAlreadyExists;
\* neither calls the hub nor overwrites the session.  A successful start
\* creates the session in SeedCommit with action_nonce 0, no commits, empty
\* hands, outcome Unresolved and no deadline.
StartGameChecks ==
    /\ [](\A p1 \in Addresses, p2 \in Addresses :
            LET r == start_game(SessionId, p1, p2)
            IN /\ p1 = p2 => r.res = "SelfPlayNotAllowed"
               /\ (p1 # p2 /\ stored) => r.res = "SessionAlreadyExists"
               /\ (p1 # p2 /\ ~stored) => r.res = "Ok" /\ r.started
               /\ r.res # "Ok" => Rejected(r) /\ ~r.started)
    /\ [][StartStep =>
            /\ hub_start' = hub_start + 1
            /\ game'.player1 # game'.player2
            /\ game'.lifecycle_state = STATE_SEED_COMMIT
            /\ game'.action_nonce = 0
            /\ IsNone(game'.seed_commit1) /\ IsNone(game'.seed_commit2)
            /\ IsNone(game'.play_commit1) /\ IsNone(game'.play_commit2)
            /\ game'.hand1 = << >> /\ game'.hand2 = << >> /\ game'.draw_pile = << >>
            /\ game'.outcome = OUTCOME_UNRESOLVED
            /\ IsNone(game'.deadline_nonce) /\ IsNone(game'.deadline_ledger)]_vars

\* The id of a session that a forfeit finished is asked for again.
StartGameChecksWitness ==
    /\ Finished
    /\ last.op = "forfeit"
    /\ hub_start = 1
    /\ start_game(SessionId, game.player1, game.player2).res = "SessionAlreadyExists"
    /\ start_game(SessionId, game.player1, game.player1).res = "SelfPlayNotAllowed"

\* C27: get_game_view redactions.  A viewer that is neither player gets both
\* hands and the draw pile empty; a player gets the own hand in full and the
\* opponent's hand empty; player 1 gets trick_card2 as None in RevealWaitP1
\* and player 2 trick_card1 as None in RevealWaitP2.
ViewRedactions ==
    stored =>
        \A viewer \in Addresses :
            LET r == get_game_view(SessionId, viewer)
            IN /\ r.res = "Ok"
               /\ viewer \notin {game.player1, game.player2}
                      => /\ r.view.hand1 = << >> /\ r.view.hand2 = << >>
                         /\ r.view.draw_pile = << >>
               /\ viewer = game.player1
                      => /\ r.view.hand1 = game.hand1 /\ r.view.hand2 = << >>
                         /\ game.trick_state = TRICK_REVEAL_WAIT_P1
                                => IsNone(r.view.trick_card2)
               /\ viewer = game.player2
                      => /\ r.view.hand2 = game.hand2 /\ r.view.hand1 = << >>
                         /\ game.trick_state = TRICK_REVEAL_WAIT_P2
                                => IsNone(r.view.trick_card1)

\* What a trick card field can hold.
TrickCardValues == {None} \cup { Some(c) : c \in 0..(DECK_SIZE - 1) }

\* What the read entry points open to everybody return for the record g:
\* get_game, and get_game_view for each viewer argument.
ReadOutputs(g) ==
    [ get_game |-> redacted_game(g),
      get_game_view |-> [viewer \in Addresses |-> redacted_view(g, viewer)] ]

\* C28: reveal privacy.  In RevealWaitP1 the outputs of get_game and of
\* get_game_view, with any viewer argument, are the same for any two states
\* that differ only in trick_card2; likewise in RevealWaitP2 for trick_card1.
RevealPrivacy ==
    Playing =>
        \A other \in TrickCardValues :
            /\ game.trick_state = TRICK_REVEAL_WAIT_P1
                   => ReadOutputs([game EXCEPT !.trick_card2 = other]) = ReadOutputs(game)
            /\ game.trick_state = TRICK_REVEAL_WAIT_P2
                   => ReadOutputs([game EXCEPT !.trick_card1 = other]) = ReadOutputs(game)

\* The second reveal_seed: the deck is shuffled and dealt and a card flipped.
DealStep ==
    /\ last'.op = "reveal_seed"
    /\ game.lifecycle_state = STATE_SEED_REVEAL
    /\ game'.lifecycle_state = STATE_PLAYING

IsDeck(deck) ==
    Len(deck) = DECK_SIZE /\ { deck[i] : i \in 1..Len(deck) } = 0..(DECK_SIZE - 1)

\* Both seeds are revealed and the deck is dealt.
Dealt ==
    /\ stored /\ game.lifecycle_state >= STATE_PLAYING
    /\ IsSome(game.seed_hash1) /\ IsSome(game.seed_hash2)

\* verify_shuffle returns a permutation of 0..35 once the deal is made, and
\* the same one on every later call.
ShuffleAuditStable ==
    /\ [](Dealt => verify_shuffle(SessionId).res = "Ok"
                       /\ IsDeck(verify_shuffle(SessionId).deck))
    /\ [][Dealt => /\ stored'
                   /\ shuffle_audit(game', SessionId) = verify_shuffle(SessionId)]_vars

\* C29 as stated: the deck of verify_shuffle is a permutation of 0..35, the
\* same on every later call, and equals hand1, hand2, draw_pile, flipped_card
\* in this order as they are right after the second reveal_seed.
ShuffleAuditPileBeforeFlipped ==
    /\ ShuffleAuditStable
    /\ [][DealStep =>
            shuffle_audit(game', SessionId).deck
                = game'.hand1 \o game'.hand2 \o game'.draw_pile \o game'.flipped_card]_vars

\* C29, amended: the deck of verify_shuffle is a permutation of 0..35, the
\* same on every later call, and equals hand1, hand2, flipped_card,
\* draw_pile in this order as they are right after the second reveal_seed.
ShuffleAudit ==
    /\ ShuffleAuditStable
    /\ [][DealStep =>
            shuffle_audit(game', SessionId).deck
                = game'.hand1 \o game'.hand2 \o game'.flipped_card \o game'.draw_pile]_vars

\* The session right after the deal, the audit deck matching it.
ShuffleAuditWitness ==
    /\ Playing
    /\ last.op = "reveal_seed"
    /\ Len(game.hand1) = HAND_SIZE /\ Len(game.hand2) = HAND_SIZE
    /\ verify_shuffle(SessionId).deck
           = game.hand1 \o game.hand2 \o game.flipped_card \o game.draw_pile

\* A step that finishes the session.
FinalizeStep == stored /\ ~Finished /\ Finished'

\* The outcome of the finished record g as its player in `slot' sees it:
\* 1 win, 2 loss, 3 draw.
OwnOutcome(g, slot) ==
    IF g.outcome = OUTCOME_DRAW THEN 3
    ELSE IF (g.outcome = OUTCOME_PLAYER1_WIN) = (slot = PLAYER_1) THEN 1
    ELSE 2

\* The summary of the finished record g for its player in `slot'.
OwnSummary(g, slot) ==
    LET other == IF slot = PLAYER_1 THEN PLAYER_2 ELSE PLAYER_1
    IN [ session_id |-> SessionId, opponent |-> PlayerOf(g, other),
         outcome |-> OwnOutcome(g, slot),
         tricks_won |-> IF slot = PLAYER_1 THEN g.tricks_won1 ELSE g.tricks_won2,
         tricks_lost |-> IF slot = PLAYER_1 THEN g.tricks_won2 ELSE g.tricks_won1,
         ledger |-> ledger ]

\* Log `after' is log `before' with one summary appended, the oldest entry
\* gone if `before' was full, the others in their order.
Logged(before, after, summary) ==
    LET evicted == IF Len(before) >= MAX_HISTORY_PER_PLAYER THEN 1 ELSE 0
    IN /\ Len(after) = Len(before) + 1 - evicted
       /\ after[Len(after)] = summary
       /\ \A i \in 1..(Len(after) - 1) : after[i] = before[i + evicted]

\* C30: player history is a bounded, ordered log.  Every finalization (by
\* trick resolution, resolve_timeout or forfeit) appends exactly one summary
\* to each of the two players' histories, outcome and trick counts from the
\* owner's side (1 win, 2 loss, 3 draw); no other step changes a history; a
\* history never holds more than 50 entries, and when it is full the oldest
\* entry is evicted, the rest staying in chronological order.
HistoryIsBoundedLog ==
    /\ [](\A a \in Addresses : Len(history[a]) <= MAX_HISTORY_PER_PLAYER)
    /\ [][IF FinalizeStep
          THEN /\ \A slot \in {PLAYER_1, PLAYER_2} :
                      Logged(history[PlayerOf(game, slot)],
                             history'[PlayerOf(game, slot)], OwnSummary(game', slot))
               /\ \A a \in Addresses \ {game.player1, game.player2} :
                      history'[a] = history[a]
          ELSE history' = history]_vars

\* The last trick gave player 1 the game: with a full history before, the
\* summary of the session is the 50th entry of both players, a win for
\* player 1 and a loss for player 2, and the oldest earlier entry is gone.
HistoryIsBoundedLogWitness ==
    /\ Finished
    /\ last.op = "reveal_play"
    /\ \A slot \in {PLAYER_1, PLAYER_2} :
           LET h == history[PlayerOf(game, slot)]
           IN /\ Len(h) = MAX_HISTORY_PER_PLAYER
              /\ h[1] = EarlierSummary(2)
              /\ h[MAX_HISTORY_PER_PLAYER] = OwnSummary(game, slot)
    /\ history[game.player1][MAX_HISTORY_PER_PLAYER].outcome = 1
    /\ history[game.player2][MAX_HISTORY_PER_PLAYER].outcome = 2

(***************************************************************************)
(* C31: a session is finalized with outcome Draw only when both seed       *)
(* commits are present, so the player1_won flag the hub receives is the    *)
(* parity of the first byte of keccak256(commit1 || commit2) and never the *)
(* parity of the session id; with outcome P1Win the flag is true and with  *)
(* P2Win it is false.                                                      *)
(***************************************************************************)
\* The flag of the end_game call the step makes.
ReportedFlag == hub_end'[Len(hub_end')]

\* C31: a draw is reported by the parity of the hash of the two seed commits,
\* a win of player 1 as true and a win of player 2 as false.
DrawFlagFromCommits ==
    [][FinalizeStep =>
          IF game'.outcome = OUTCOME_DRAW
          THEN BothCommitted(game) /\ Len(hub_end') = Len(hub_end) + 1
                   /\ ReportedFlag =
                        (KeccakPairFirstByte(Unwrap(game.seed_commit1),
                                             Unwrap(game.seed_commit2)) % 2 = 0)
          ELSE Len(hub_end') = Len(hub_end) + 1
                   /\ game'.outcome \in {OUTCOME_PLAYER1_WIN, OUTCOME_PLAYER2_WIN}
                   /\ ReportedFlag = (game'.outcome = OUTCOME_PLAYER1_WIN)]_vars

\* A draw was reported to the hub as a win of player 1, which the parity of
\* the session id would not have given.
DrawFlagFromCommitsWitness ==
    /\ Finished
    /\ game.outcome = OUTCOME_DRAW
    /\ hub_end = << TRUE >>
    /\ SessionId % 2 # 0

(***************************************************************************)
(* C32: the verifier picks the mode by the length of the proof: 64 is      *)
(* checked as mode 2 (when the public inputs are longer than the 100-byte  *)
(* prefix of that mode, and rejected otherwise), 128 as mode 4, 228 as     *)
(* mode 8, 96 + 64*N with 1 <= N <= 9 as mode 7; every other length,       *)
(* 0 and 96 + 64*N with N > 9 included, is rejected.  A call touches no    *)
(* storage and a second call with the same arguments returns the same.     *)
(***************************************************************************)
RingLens == { 96 + 64 * n : n \in 1..9 }

VerifyStep == last'.op = "verify" /\ zk_call'.calls > zk_call.calls

\* What the step has to return when proofs of 64 bytes are left aside.
DispatchOfOtherLengths(pi, proof) ==
    /\ proof.len = 128 =>
           zk_call'.mode = 4 /\ zk_call'.result = verify_pedersen_sigma(pi, proof)
    /\ proof.len = 228 =>
           zk_call'.mode = 8 /\ zk_call'.result = verify_cangkul_hand(pi, proof)
    /\ proof.len \in RingLens =>
           zk_call'.mode = 7 /\ zk_call'.result = verify_card_play_ring(pi, proof)
    /\ proof.len \notin {64, 128, 228} \cup RingLens => zk_call'.result = FALSE

\* A call changes nothing but its own record, and returns what the call
\* before it returned.
VerifyIsPure ==
    /\ UNCHANGED << stored, game, ledger, hub_start, hub_end, history, noir_flag >>
    /\ zk_call'.public_inputs = zk_call.public_inputs /\ zk_call'.proof = zk_call.proof
    /\ zk_call.calls > 0 => zk_call'.result = zk_call.result

\* C32 as stated: the length of the proof alone picks the mode.
DispatchByProofLengthAlone ==
    [][VerifyStep =>
          LET pi == zk_call.public_inputs
              proof == zk_call.proof
          IN /\ proof.len = 64 =>
                    zk_call'.mode = 2 /\ zk_call'.result = verify_nizk_seed(pi, proof)
             /\ DispatchOfOtherLengths(pi, proof)
             /\ VerifyIsPure]_vars

\* C32: the mode follows the proof length, mode 2 also asking for public
\* inputs of 101 bytes or more; other lengths are rejected; calls are pure.
VerifierDispatch ==
    [][VerifyStep =>
          LET pi == zk_call.public_inputs
              proof == zk_call.proof
          IN /\ (proof.len = 64 /\ pi.len >= 101) =>
                    zk_call'.mode = 2 /\ zk_call'.result = verify_nizk_seed(pi, proof)
             /\ (proof.len = 64 /\ pi.len < 101) =>
                    zk_call'.mode = 0 /\ zk_call'.result = FALSE
             /\ DispatchOfOtherLengths(pi, proof)
             /\ VerifyIsPure]_vars

\* A ring proof over nine cards was accepted, twice.
VerifierDispatchWitness ==
    /\ zk_call.calls = 2
    /\ zk_call.proof.len = 96 + 64 * 9
    /\ zk_call.mode = 7
    /\ zk_call.result = TRUE

(***************************************************************************)
(* C33: the pre-verified Noir flag is one-shot and bound to the session,   *)
(* the slot and the seed hash.  A reveal_seed with an empty proof succeeds *)
(* only on a flag that holds the seed hash revealed, and removes it; the   *)
(* flag of a slot is set only by a verify_noir_seed of the player in that  *)
(* slot and removed only by that player's reveal.  With no flag the empty  *)
(* reveal returns InvalidZkProof, with a flag for another seed hash        *)
(* CommitHashMismatch, and both leave the flag and the session as is.      *)
(***************************************************************************)
SeedRevealedOf(g, slot) == IF slot = PLAYER_1 THEN g.seed_revealed1 ELSE g.seed_revealed2

\* The checks reveal_seed makes before it looks at the proof pass.
MayReveal(player, seed_hash) ==
    /\ stored
    /\ game.lifecycle_state = STATE_SEED_REVEAL
    /\ resolve_slot(game, player) # 0
    /\ ~SeedRevealedOf(game, resolve_slot(game, player))
    /\ check_seed_entropy(seed_hash)

EmptyReveal(player, seed_hash) == reveal_seed(SessionId, player, seed_hash, EmptyProof)

EmptyRevealNeedsFlag ==
    \A player \in Addresses, seed_hash \in SeedHashes \cup {WeakSeedHash} :
        LET slot == resolve_slot(game, player)
            r == EmptyReveal(player, seed_hash)
        IN /\ r.res = "Ok" =>
                  /\ MayReveal(player, seed_hash)
                  /\ noir_flag[slot] = Some(seed_hash)
                  /\ r.noir_flag = [noir_flag EXCEPT ![slot] = None]
           /\ (MayReveal(player, seed_hash) /\ IsNone(noir_flag[slot])) =>
                  r.res = "InvalidZkProof" /\ r.g = game /\ r.noir_flag = noir_flag
           /\ (MayReveal(player, seed_hash) /\ IsSome(noir_flag[slot])
                  /\ noir_flag[slot] # Some(seed_hash)) =>
                  r.res = "CommitHashMismatch" /\ r.g = game /\ r.noir_flag = noir_flag

\* How the flag of a slot changed in the step, if it did.
FlagSetByVerify(slot) ==
    /\ IsNone(noir_flag[slot]) \/ last'.op = "verify_noir_seed"
    /\ IsSome(noir_flag'[slot])
    /\ last' = [op |-> "verify_noir_seed", caller |-> PlayerOf(game, slot)]
    /\ game' = game
    /\ SeedCommitOf(game, slot) = Some(KeccakSeedHash(Unwrap(noir_flag'[slot])))

FlagConsumedByReveal(slot) ==
    /\ IsSome(noir_flag[slot])
    /\ IsNone(noir_flag'[slot])
    /\ last' = [op |-> "reveal_seed", caller |-> PlayerOf(game, slot)]
    /\ ~SeedRevealedOf(game, slot) /\ SeedRevealedOf(game', slot)
    /\ (IF slot = PLAYER_1 THEN game'.seed_hash1 ELSE game'.seed_hash2) = noir_flag[slot]

\* C33: the empty-proof reveal needs the flag of its slot and seed hash and
\* consumes it; only verify_noir_seed sets the flag.
NoirFlagOneShot ==
    [][IF stored
       THEN EmptyRevealNeedsFlag
                /\ \A slot \in {PLAYER_1, PLAYER_2} :
                       noir_flag'[slot] # noir_flag[slot] =>
                           FlagSetByVerify(slot) \/ FlagConsumedByReveal(slot)
       ELSE noir_flag' = noir_flag]_vars

\* Player 2 revealed the seed hash of a Noir commit with an empty proof, on
\* the flag the player's verify_noir_seed had left, and the flag is gone.
NoirFlagOneShotWitness ==
    /\ stored
    /\ last = [op |-> "reveal_seed", caller |-> Bob]
    /\ game.seed_commit2 = Some(KeccakSeedHash(2))
    /\ game.seed_revealed2 /\ game.seed_hash2 = Some(2)
    /\ IsNone(noir_flag[PLAYER_2])

(***************************************************************************)
(* C34: in every reachable Playing state the play commits stored follow    *)
(* the trick state: none in CommitWaitBoth; only that of player 2 in       *)
(* CommitWaitP1 and only that of player 1 in CommitWaitP2; both in the     *)
(* three reveal states.  So a player awaited to commit holds no commit.    *)
(***************************************************************************)
CommitSlots ==
    Playing =>
        /\ game.trick_state = TRICK_COMMIT_WAIT_BOTH =>
               IsNone(game.play_commit1) /\ IsNone(game.play_commit2)
        /\ game.trick_state = TRICK_COMMIT_WAIT_P1 =>
               IsNone(game.play_commit1) /\ IsSome(game.play_commit2)
        /\ game.trick_state = TRICK_COMMIT_WAIT_P2 =>
               IsSome(game.play_commit1) /\ IsNone(game.play_commit2)
        /\ game.trick_state \in RevealStates =>
               IsSome(game.play_commit1) /\ IsSome(game.play_commit2)
        /\ \A slot \in {PLAYER_1, PLAYER_2} :
               require_commit_phase(game, slot) => IsNone(PlayCommitOf(game, slot))

\* In a later trick player 2 has committed and player 1 is awaited, and a
\* trick with one reveal made has both commits in place.
CommitSlotsWitness ==
    /\ Playing
    /\ resolved >= 1
    /\ \/ game.trick_state = TRICK_COMMIT_WAIT_P1 /\ IsSome(game.play_commit2)
       \/ game.trick_state = TRICK_REVEAL_WAIT_P2 /\ IsSome(game.play_commit1)

(***************************************************************************)
(* C35: in every reachable Playing state a trick is in progress: the trick *)
(* state is one of the six wait states, the flipped card is there and the  *)
(* trick suit is the flipped card divided by 9.  In SeedCommit, SeedReveal *)
(* and in a session finished by the resolution of its last trick the trick *)
(* state is None and there is no trick suit.                               *)
(***************************************************************************)
\* The session ended in resolve_trick, run by the second reveal of a trick.
FinishedByResolution == Finished /\ last.op = "reveal_play"

\* C35: a trick is in progress exactly in Playing.
TrickInProgress ==
    stored =>
        /\ game.lifecycle_state = STATE_PLAYING =>
               /\ game.trick_state \in CommitStates \cup RevealStates
               /\ IsSome(game.flipped_card)
               /\ game.trick_suit = Some(Unwrap(game.flipped_card) \div 9)
        /\ (game.lifecycle_state \in {STATE_SEED_COMMIT, STATE_SEED_REVEAL}
                \/ FinishedByResolution) =>
               game.trick_state = TRICK_NONE /\ IsNone(game.trick_suit)

\* Tricks were played to the end of the session.
TrickInProgressWitness ==
    /\ FinishedByResolution
    /\ resolved >= 2
    /\ game.trick_state = TRICK_NONE

(***************************************************************************)
(* C36: every operation that sets the deadline pair sets deadline_nonce to *)
(* the nonce it leaves plus 2 and deadline_ledger to the current ledger    *)
(* plus 120, both ahead of the nonce and the ledger of that moment.  The   *)
(* pair is None before the first seed commit, present in every unfinished  *)
(* state after it, and None in Finished.                                   *)
(***************************************************************************)
DeadlinePair(g) == << g.deadline_nonce, g.deadline_ledger >>

\* The pair the session holds was armed in this very step.
ArmedNow(g) ==
    /\ g.deadline_nonce = Some(g.action_nonce + 2)
    /\ g.deadline_ledger = Some(ledger' + 120)
    /\ Unwrap(g.deadline_nonce) > g.action_nonce
    /\ Unwrap(g.deadline_ledger) > ledger'

\* Operations that arm the pair whenever they leave the session unfinished.
AlwaysArming == {"commit_play", "commit_play_zk", "commit_cangkul_zk", "reveal_play"}

\* When the pair is there.
DeadlinePresence(g) ==
    /\ (g.lifecycle_state = STATE_SEED_COMMIT
            /\ IsNone(g.seed_commit1) /\ IsNone(g.seed_commit2)) =>
           DeadlinePair(g) = << None, None >>
    /\ (g.lifecycle_state # STATE_FINISHED
            /\ (IsSome(g.seed_commit1) \/ IsSome(g.seed_commit2))) =>
           IsSome(g.deadline_nonce) /\ IsSome(g.deadline_ledger)
    /\ g.lifecycle_state = STATE_FINISHED => DeadlinePair(g) = << None, None >>

\* C36: the pair is armed at nonce + 2 and ledger + 120 and is there from
\* the first seed commit to the end of the session.
DeadlineArming ==
    [][IF stored'
       THEN /\ DeadlinePresence(game')
            /\ (DeadlinePair(game') # DeadlinePair(game)
                    /\ game'.lifecycle_state # STATE_FINISHED) => ArmedNow(game')
            /\ (game' # game /\ last'.op \in AlwaysArming
                    /\ game'.lifecycle_state # STATE_FINISHED) => ArmedNow(game')
       ELSE TRUE]_vars

\* A reveal in a trick armed the pair anew at a later ledger than the
\* session began at.
DeadlineArmingWitness ==
    /\ Playing
    /\ last.op = "reveal_play"
    /\ ledger > InitialLedger
    /\ game.deadline_nonce = Some(game.action_nonce + 2)
    /\ game.deadline_ledger = Some(ledger + 120)

(***************************************************************************)
(* C37: zk_play_i is true exactly when the play commit stored for slot i   *)
(* was accepted by commit_play_zk or commit_cangkul_zk in the current      *)
(* trick: the flag is written with the commit, kept while the commit is    *)
(* kept, and false when there is no commit.  Both flags are false at the   *)
(* start of every trick and after every resolution.                        *)
(***************************************************************************)
ZkCommitOps == {"commit_play_zk", "commit_cangkul_zk"}

ZkFlagFollowsCommit(slot) ==
    /\ (IsNone(PlayCommitOf(game, slot)) /\ IsSome(PlayCommitOf(game', slot))) =>
           /\ last'.op \in ZkCommitOps \cup {"commit_play"}
           /\ last'.caller = PlayerOf(game, slot)
           /\ SlotZk(game', slot) = (last'.op \in ZkCommitOps)
    /\ (IsSome(PlayCommitOf(game, slot)) /\ IsSome(PlayCommitOf(game', slot))) =>
           /\ PlayCommitOf(game', slot) = PlayCommitOf(game, slot)
           /\ SlotZk(game', slot) = SlotZk(game, slot)
    /\ IsNone(PlayCommitOf(game', slot)) => ~SlotZk(game', slot)

\* C37: the zk flag of a slot follows the commit of the slot.
ZkFlagConsistency ==
    [][IF stored /\ stored'
       THEN /\ \A slot \in {PLAYER_1, PLAYER_2} : ZkFlagFollowsCommit(slot)
            /\ game'.trick_state \in {TRICK_COMMIT_WAIT_BOTH, TRICK_NONE} =>
                   ~game'.zk_play1 /\ ~game'.zk_play2
       ELSE stored' => ~game'.zk_play1 /\ ~game'.zk_play2]_vars

\* In a later trick player 1 holds a legacy commit and player 2 a ZK one.
ZkFlagConsistencyWitness ==
    /\ Playing
    /\ resolved >= 1
    /\ IsSome(game.play_commit1) /\ Unwrap(game.play_commit1).kind = "play"
    /\ ~game.zk_play1
    /\ IsSome(game.play_commit2) /\ game.zk_play2

(***************************************************************************)
(* C38: between the operation that last armed the deadline pair and a      *)
(* successful resolve_timeout at least MIN_TICK_GAP_LEDGERS ledgers go by; *)
(* no player reveals a seed, ticks and wins by timeout in one ledger.      *)
(***************************************************************************)
\* The ledger at which the pair the session holds was armed.
ArmedAtLedger(g) == Unwrap(g.deadline_ledger) - TIMEOUT_LEDGERS

\* C38: a timeout is resolved no sooner than MIN_TICK_GAP_LEDGERS ledgers
\* after the deadline pair was armed.
MinimumWaitBeforeTimeout ==
    [][ResolveStep => ledger >= ArmedAtLedger(game) + MIN_TICK_GAP_LEDGERS]_vars

(***************************************************************************)
(* C39: the tie rule of trick resolution is never exercised.  Whenever a   *)
(* trick is resolved with a card revealed by each player, the two are      *)
(* different cards of the trick suit and so of different values.           *)
(***************************************************************************)
BothPlayedStep == TrickResolvedStep /\ Played(PLAYER_1) /\ Played(PLAYER_2)

\* C39: two cards played in a trick are never of equal value.
NoTiedTrick ==
    [][BothPlayedStep =>
          LET c1 == TrickAction(PLAYER_1)
              c2 == TrickAction(PLAYER_2)
          IN /\ c1 # c2
             /\ Suit(c1) = Unwrap(game.trick_suit)
             /\ Suit(c2) = Unwrap(game.trick_suit)
             /\ Value(c1) # Value(c2)]_vars

\* A trick in which both players played a card has been resolved, taking
\* the flipped card and the two cards played out of play.
NoTiedTrickWitness ==
    /\ stored
    /\ last.op = "reveal_play"
    /\ resolved >= 1
    /\ game.tricks_won1 + game.tricks_won2 >= 1
    /\ Len(removed) = 3 * resolved

(***************************************************************************)
(* C40: in every reachable state each hand holds at most 18 cards, 5 dealt *)
(* and at most 13 penalty cards, every penalty card but the last being     *)
(* followed by the flip of another card of the pile; a player awaited to   *)
(* commit in Playing holds at least 1 card.  So the hand size k that       *)
(* commit_cangkul_zk sends to the verifier satisfies 1 <= k <= 18.         *)
(***************************************************************************)
MaxHand == HAND_SIZE + PileSize \div 2

\* Cards the draw pile has given up since the deal.
PileConsumed(g) == PileSize - Len(g.draw_pile)

\* C40: a hand holds at most 18 cards, and at least 1 when its player is
\* awaited to commit.
HandSizeBound ==
    (stored /\ game.lifecycle_state \in {STATE_PLAYING, STATE_FINISHED}) =>
        \A slot \in {PLAYER_1, PLAYER_2} :
            LET k == Len(get_hand(game, slot))
            IN /\ k <= MaxHand
               /\ MaxHand = 18
               /\ Dealt => 2 * (k - HAND_SIZE) <= PileConsumed(game)
               /\ (Playing /\ require_commit_phase(game, slot)) => k >= 1
               /\ CommitGuard(SessionId, PlayerOf(game, slot), game.action_nonce) = "Ok"
                      => (k >= 1 /\ k <= 18)

\* A player who holds penalty cards has committed the whole hand by
\* commit_cangkul_zk.
HandSizeBoundWitness ==
    /\ Playing
    /\ last.op = "commit_cangkul_zk"
    /\ \E slot \in {PLAYER_1, PLAYER_2} :
           /\ last.caller = PlayerOf(game, slot)
           /\ Len(get_hand(game, slot)) > HAND_SIZE

=============================================================================
